---------------------------- MODULE Spec2Model ----------------------------
(*
  ArgusLM: a state-machine model of

    - the Throttle Manager        (app/core/throttle.py),
    - the alert pipeline          (app/core/alert_evaluator.py, the monitoring
                                   tick of app/api/monitoring.py and the
                                   acknowledge handler of app/api/alerts.py),
    - the monitoring control plane (the MonitoringConfig requests of
                                   app/api/monitoring.py and the scheduler of
                                   arguslm/server/core/scheduler.py),
    - the benchmark background task (app/api/benchmarks.py,
                                   app/core/benchmark_engine.py),
    - the provider invoker        (app/core/litellm_client.py and check_uptime
                                   of app/core/uptime.py),
    - the live progress bus       (_broadcast_to_run and stream_benchmark of
                                   app/api/benchmarks.py, stream_benchmark of
                                   arguslm/client.py),
    - the benchmark engine        (run_benchmark and benchmark_single_model of
                                   app/core/benchmark_engine.py, with their
                                   semaphores),
    - evaluate_alerts as a function (app/core/alert_evaluator.py, one call on
                                   a rule table, an Alert table and a batch),
    - the provider accounts       (create_provider and delete_provider of
                                   app/api/providers.py, create_model of
                                   app/api/models.py),
    - the probe loop of a tick    (run_uptime_checks_task of
                                   app/api/monitoring.py, next to the
                                   Throttle Manager),
    - the process lifetime        (lifespan of arguslm/server/main.py,
                                   stop_scheduler),
    - the measurement of a stream (MetricsCollector of app/core/metrics.py,
                                   the counters of benchmark_single_model).

  The program is single-threaded cooperative multitasking (asyncio): a
  coroutine runs without interruption from one `await` to the next.  Every
  action below is the code executed at one suspension point: the effect of the
  awaited operation followed by the synchronous code up to the next await.
  Each subsystem has its own next-state relation and specification, which
  leaves the state of the others unchanged; the monitoring tick belongs to the
  alert pipeline (SpecAlerts) and to the monitoring job (SpecJob).
*)
EXTENDS Integers, Sequences, FiniteSets, TLC

(***************************************************************************)
(* Bounds of the model                                                     *)
(***************************************************************************)
\* concurrent callers of ThrottleManager.acquire
NumCallers == 3
\* the ThrottleProfile the manager is constructed with (the profile of
\* spec scenario 2 and tests/test_throttle.py: global 2, provider 1, model 1)
GlobalLimit == 2
ProviderLimit == 1
ModelLimit == 1

\* runs of the monitoring job body (scheduled or manual), possibly overlapping
NumTicks == 2

\* largest num_runs a benchmark request of the model asks for (the schema
\* accepts 1..10)
MaxNumRuns == 2
\* BenchmarkConfig.warmup_runs, which create_benchmark leaves at its default
WarmupRuns == 1

\* largest max_retries a caller of the model passes to complete / complete_stream
MaxRetries == 2
\* most chunks one provider stream delivers
MaxChunks == 2
\* LiteLLMClient defaults: default_max_retries, default_retry_delay,
\* default_retry_multiplier
DefaultMaxRetries == 3
DefaultRetryDelay == 1
DefaultRetryMultiplier == 2

\* interval_minutes of the default MonitoringConfig
DefaultInterval == 15

\* WebSocket connections opened on the stream of the run
NumSubscribers == 2
\* most messages the task of the run publishes
MaxMessages == 2

\* most rows of the AlertRule table evaluate_alerts is run on
MaxRules == 2

\* most BenchmarkResult rows of one model
MaxResults == 2

\* most chunks of the stream a measurement consumes
MaxStreamLen == 3
\* an explicit output-token count handed to MetricsCollector.finalize
ExplicitCount == 10

Callers == 1..NumCallers
Ticks == 1..NumTicks
ProviderKeys == {"openai", "anthropic"}
ModelKeys == {"gpt-4", "claude-3"}
Levels == {"global", "provider", "model"}

VARIABLES
    \* ---- ThrottleManager (app/core/throttle.py) ----
    global_semaphore,       \* _global_semaphore._value
    provider_semaphores,    \* _provider_semaphores: key -> _value
    model_semaphores,       \* _model_semaphores: key -> _value
    cpc,                    \* position of each acquire() caller
    ckeys,                  \* (provider_key, model_key) of each caller
    ctaken,                 \* number of permits the caller has taken so far
    sem_created,            \* asyncio.Semaphore objects constructed, per table and key
    csem,                   \* which of a key's semaphores each caller was handed
    \* ---- store: alerts and uptime checks ----
    alerts,                 \* committed Alert rows, in insertion order
    uptime_checks,          \* committed UptimeCheck rows, in insertion order
    clock,                  \* commits of monitoring ticks so far (created_at)
    config_rows,            \* committed MonitoringConfig rows, in insertion order
    \* ---- one run of run_uptime_checks_task, each with its own session ----
    tpc,                    \* position of the tick
    tbatch,                 \* uptime_checks list of the tick
    tidx,                   \* the _has_active_incident call it is suspended in
    tseen,                  \* the result that query produced
    tnew,                   \* Alerts the tick has added to its session
    tcfg,                   \* the MonitoringConfig row the tick holds
    ttrigger,               \* what started the tick: the job or POST /run
    tfault,                 \* the stage whose exception ended the tick
    \* ---- scheduler (arguslm/server/core/scheduler.py) ----
    jobs,                   \* job table of the AsyncIOScheduler
    scheduler_running,      \* the process is up and scheduler.start() was called
    last_configure,         \* arguments of the latest configure_scheduler call
    \* ---- GET / PATCH /monitoring/config requests, each with its session ----
    rpc,                    \* position of the request
    rkind,                  \* GET or PATCH
    rupdate,                \* the MonitoringConfigUpdate of a PATCH
    rrow,                   \* the row the session holds (0: none)
    rloaded,                \* attribute values the session loaded for it
    \* ---- store: the BenchmarkRun row and its BenchmarkResult rows ----
    run_status,             \* BenchmarkRun.status ("none": no row yet)
    run_completed_at,       \* BenchmarkRun.completed_at is set
    run_model_ids,          \* BenchmarkRun.model_ids
    store_results,          \* committed BenchmarkResult rows of the run
    \* ---- _run_benchmark_task of the run, with its own session ----
    bpc,                    \* the await the task is suspended in
    config,                 \* the BenchmarkConfig handed to the task
    session,                \* state of the task's session transaction
    pending_status,         \* run.status assigned but not yet flushed
    session_results,        \* BenchmarkResults added but not yet flushed
    results,                \* list returned by run_benchmark
    saved,                  \* results the save loop has gone through
    storage_error,          \* the first persistence operation that failed
    \* ---- progress bus of the run ----
    connected,              \* a WebSocket is registered in _active_connections
    benchmark_progress,     \* the run has an entry in _benchmark_progress
    emitted,                \* types of the messages broadcast, in order
    response,               \* outcome of the last POST /benchmarks
    \* ---- one invocation of LiteLLMClient (app/core/litellm_client.py) ----
    ipc,                    \* position of the invocation
    imode,                  \* complete, complete_stream or check_uptime
    max_retries,            \* config.max_retries
    attempt,                \* loop variable of the retry loop
    retry_delay,            \* delay of the next backoff sleep
    retry_config,           \* config.retry_delay and config.retry_multiplier
    last_exception,         \* last transient error caught
    history,                \* outcome of every provider call, in order
    sleeps,                 \* delays of the backoff sleeps, in order
    yielded,                \* chunks handed to the consumer of the stream
    attempt_yielded,        \* those of them the latest provider call delivered
    ttft_attempt,           \* the provider call whose chunk set the consumer's
                            \* TTFT (0: not set)
    raised,                 \* the exception that left the invocation
    uptime_check,           \* the UptimeCheck check_uptime returned
    \* ---- progress bus of one run (app/api/benchmarks.py) ----
    key_present,            \* run_id in _active_connections
    active_connections,     \* _active_connections[run_id], in list order
    sstate,                 \* each WebSocket: new, open, closed, gone
    received,               \* messages each client has read, in order
    published,              \* types of the messages published, in order
    ppc,                    \* _broadcast_to_run: idle, or sending to a socket
    bidx,                   \* index of the list iterator of its for loop
    bcur,                   \* the socket of the send_json it awaits
    detached,               \* the list it iterates left the table (key deleted)
    disconnected,           \* its local list of sockets whose send raised
    attempts,               \* send_json calls of this publish per socket that
                            \* was registered when it began
    \* ---- run_benchmark (app/core/benchmark_engine.py), one call per run ----
    epc,                    \* position of each call: idle, gather, returned
    econfig,                \* its BenchmarkConfig
    semaphores,             \* its `semaphores` dict: the _value of each
    etasks,                 \* its `tasks` list: position and result of each
    eaggregated,            \* the `aggregated` list it returned
    probing,                \* a monitoring tick has a check_uptime call in flight
    \* ---- one call of evaluate_alerts (app/core/alert_evaluator.py) ----
    ev_called,              \* the call was made and has returned
    ev_rules,               \* the AlertRule table it queries
    ev_store,               \* the Alert table it queries
    ev_checks,              \* its uptime_checks argument
    new_alerts,             \* the list it returned
    \* ---- store: one ProviderAccount, its Models, their BenchmarkResults ----
    provider_row,           \* the ProviderAccount row exists
    model_rows,             \* ids of the Model rows of the provider
    result_rows,            \* number of BenchmarkResult rows of each model id
    \* ---- one DELETE /providers/{id} request, with its session ----
    dpc,                    \* position of the request
    dloaded,                \* benchmark_results the session loaded per model
    dresponse,               \* status code of the response ("-": none yet)
    \* ---- probe loop of each run of run_uptime_checks_task ----
    loop_pc,                \* position of the run: idle, probing, evaluate, ...
    loop_idx,               \* index in `models` of the model being probed
    in_flight,              \* models whose provider call the run has in flight
    loop_checks,             \* its uptime_checks list
    \* ---- process lifetime (lifespan of arguslm/server/main.py) ----
    lifespan,               \* down, serving (at the yield), or exited
    job_task,               \* the coroutine of the scheduled monitoring job
    manual_task,            \* the background task of POST /monitoring/run
    bench_tasks,            \* the background task of each benchmark run
    engine_disposed,        \* the connections of the store engine are closed
    \* ---- measurement of one stream (app/core/metrics.py, benchmark_engine.py) ----
    measuring,              \* the consumer of the stream, "-" before it starts
    chunks_seen,            \* content of the chunks consumed so far
    collector,              \* the consumer's counters
    metrics                 \* what the consumer reports at the end

throttleVars == <<global_semaphore, provider_semaphores, model_semaphores,
                  cpc, ckeys, ctaken, sem_created, csem>>

tickVars == <<tpc, tbatch, tidx, tseen, tnew, tcfg, ttrigger, tfault>>
alertVars == <<alerts, uptime_checks, clock, config_rows, tickVars>>
schedulerVars == <<jobs, scheduler_running, last_configure>>
requestVars == <<rpc, rkind, rupdate, rrow, rloaded>>
monitoringVars == <<schedulerVars, requestVars>>

benchVars == <<run_status, run_completed_at, run_model_ids, store_results, bpc,
               config, session, pending_status, session_results, results, saved,
               storage_error, connected, benchmark_progress, emitted, response>>
invokerVars == <<ipc, imode, max_retries, attempt, retry_delay, retry_config,
                 last_exception, history, sleeps, yielded, attempt_yielded,
                 ttft_attempt, raised, uptime_check>>
busVars == <<key_present, active_connections, sstate, received, published, ppc,
             bidx, bcur, detached, disconnected, attempts>>
engineVars == <<epc, econfig, semaphores, etasks, eaggregated, probing>>
evaluatorVars == <<ev_called, ev_rules, ev_store, ev_checks, new_alerts>>
providerVars == <<provider_row, model_rows, result_rows, dpc, dloaded, dresponse>>
probeVars == <<loop_pc, loop_idx, in_flight, loop_checks>>
lifespanVars == <<lifespan, job_task, manual_task, bench_tasks, engine_disposed>>
metricsVars == <<measuring, chunks_seen, collector, metrics>>
vars == <<throttleVars, alertVars, monitoringVars, benchVars, invokerVars,
          busVars, engineVars, evaluatorVars, providerVars, probeVars,
          lifespanVars, metricsVars>>

otherThanThrottle ==
    <<alertVars, monitoringVars, benchVars, invokerVars, busVars, engineVars,
      evaluatorVars, providerVars, probeVars, lifespanVars, metricsVars>>
otherThanAlerts ==
    <<throttleVars, monitoringVars, benchVars, invokerVars, busVars,
      engineVars, evaluatorVars, providerVars, probeVars, lifespanVars,
      metricsVars>>
otherThanMonitoring ==
    <<throttleVars, benchVars, invokerVars, busVars, engineVars,
      evaluatorVars, providerVars, probeVars, lifespanVars, metricsVars>>
otherThanBenchmark ==
    <<throttleVars, alertVars, monitoringVars, invokerVars, busVars,
      engineVars, evaluatorVars, providerVars, probeVars, lifespanVars,
      metricsVars>>
otherThanInvoker ==
    <<throttleVars, alertVars, monitoringVars, benchVars, busVars, engineVars,
      evaluatorVars, providerVars, probeVars, lifespanVars, metricsVars>>
otherThanBus ==
    <<throttleVars, alertVars, monitoringVars, benchVars, invokerVars,
      engineVars, evaluatorVars, providerVars, probeVars, lifespanVars,
      metricsVars>>
otherThanEngine ==
    <<throttleVars, alertVars, monitoringVars, benchVars, invokerVars,
      busVars, evaluatorVars, providerVars, probeVars, lifespanVars,
      metricsVars>>
otherThanEvaluator ==
    <<throttleVars, alertVars, monitoringVars, benchVars, invokerVars,
      busVars, engineVars, providerVars, probeVars, lifespanVars,
      metricsVars>>
otherThanProviders ==
    <<throttleVars, alertVars, monitoringVars, benchVars, invokerVars,
      busVars, engineVars, evaluatorVars, probeVars, lifespanVars,
      metricsVars>>
otherThanProbes ==
    <<throttleVars, alertVars, monitoringVars, benchVars, invokerVars,
      busVars, engineVars, evaluatorVars, providerVars, lifespanVars,
      metricsVars>>
otherThanLifespan ==
    <<throttleVars, alertVars, monitoringVars, benchVars, invokerVars,
      busVars, engineVars, evaluatorVars, providerVars, probeVars,
      metricsVars>>
otherThanMetrics ==
    <<throttleVars, alertVars, monitoringVars, benchVars, invokerVars,
      busVars, engineVars, evaluatorVars, providerVars, probeVars,
      lifespanVars>>

(***************************************************************************)
(* Throttle Manager                                                        *)
(***************************************************************************)
NoKeys == [provider |-> "-", model |-> "-"]
NoSems == [provider |-> 0, model |-> 0]

\* ThrottleManager.__init__: the global semaphore holds global_limit permits,
\* both key tables are empty.
InitThrottle ==
    /\ global_semaphore = GlobalLimit
    /\ provider_semaphores = << >>
    /\ model_semaphores = << >>
    /\ cpc = [c \in Callers |-> "idle"]
    /\ ckeys = [c \in Callers |-> NoKeys]
    /\ ctaken = [c \in Callers |-> 0]
    /\ sem_created = [provider |-> << >>, model |-> << >>]
    /\ csem = [c \in Callers |-> NoSems]

\* a table with key k set to v (dict assignment)
Put(table, k, v) ==
    [x \in (DOMAIN table) \cup {k} |-> IF x = k THEN v ELSE table[x]]

\* alternative acquire(): even-numbered callers nest the scopes model-first
AcquireOrderInverted(c) ==
    IF c % 2 = 0 THEN <<"model", "provider", "global">>
                 ELSE <<"global", "provider", "model">>

\* The nesting of the three `async with` scopes in acquire(): the same for
\* every caller.
AcquireOrder(c) == <<"global", "provider", "model">>

\* current _value of the semaphore caller c uses at a level
SemValue(c, level) ==
    CASE level = "global"   -> global_semaphore
      [] level = "provider" -> provider_semaphores[ckeys[c].provider]
      [] level = "model"    -> model_semaphores[ckeys[c].model]

\* the levels whose permit caller c holds
Held(c) ==
    IF cpc[c] \in {"acquiring", "inside"}
    THEN {AcquireOrder(c)[i] : i \in 1..ctaken[c]}
    ELSE {}

\* alternative membership test that finds every key missing
MissingAlways(table, key) == TRUE

\* `if key not in self._provider_semaphores` / `_model_semaphores`: the test
\* made before taking the creation lock and again under it
Missing(table, key) == key \notin DOMAIN table

\* _get_provider_semaphore: the provider's semaphore, created with
\* provider_limit permits on first use.  The creation lock is never held
\* across an await and asyncio.Lock.acquire returns at once on a free lock, so
\* the lookup, the double check and the creation run without suspension.
GetProviderSemaphore(table, provider_key) ==
    IF Missing(table, provider_key)
    THEN Put(table, provider_key, ProviderLimit)
    ELSE table

\* _get_model_semaphore
GetModelSemaphore(table, model_key) ==
    IF Missing(table, model_key)
    THEN Put(table, model_key, ModelLimit)
    ELSE table

\* number of Semaphore objects constructed so far for a key
CreatedFor(count, key) == IF key \in DOMAIN count THEN count[key] ELSE 0

\* the construction count after one _get_*_semaphore(key) on `table`: the
\* `asyncio.Semaphore(limit)` expression is evaluated iff the key is missing
Constructed(count, table, key) ==
    IF Missing(table, key)
    THEN Put(count, key, CreatedFor(count, key) + 1)
    ELSE count

\* A caller enters acquire(provider_key, model_key): it looks up (or creates)
\* its two semaphores and reaches `async with self._global_semaphore`.
\* Callers are numbered in the order in which they call.
Call(c, p, m) ==
    /\ cpc[c] = "idle"
    /\ IF c = 1 THEN TRUE ELSE cpc[c - 1] # "idle"
    /\ provider_semaphores' = GetProviderSemaphore(provider_semaphores, p)
    /\ model_semaphores' = GetModelSemaphore(model_semaphores, m)
    /\ cpc' = [cpc EXCEPT ![c] = "acquiring"]
    /\ ckeys' = [ckeys EXCEPT ![c] = [provider |-> p, model |-> m]]
    /\ sem_created' =
          [provider |-> Constructed(sem_created.provider, provider_semaphores, p),
           model    |-> Constructed(sem_created.model, model_semaphores, m)]
    /\ csem' = [csem EXCEPT ![c] = [provider |-> CreatedFor(sem_created'.provider, p),
                                    model    |-> CreatedFor(sem_created'.model, m)]]
    /\ UNCHANGED <<global_semaphore, ctaken>>

\* the three semaphore values after adding d to the semaphores of caller c at
\* the levels in ls
Adjust(c, ls, d) ==
    [global   |-> IF "global" \in ls THEN global_semaphore + d ELSE global_semaphore,
     provider |-> IF "provider" \in ls
                  THEN [provider_semaphores EXCEPT ![ckeys[c].provider] = @ + d]
                  ELSE provider_semaphores,
     model    |-> IF "model" \in ls
                  THEN [model_semaphores EXCEPT ![ckeys[c].model] = @ + d]
                  ELSE model_semaphores]

SetSemaphores(s) ==
    /\ global_semaphore' = s.global
    /\ provider_semaphores' = s.provider
    /\ model_semaphores' = s.model

\* alternative Semaphore.acquire that does not wait for a free permit
AcquireNextUnguarded(c) ==
    /\ cpc[c] = "acquiring"
    /\ LET level == AcquireOrder(c)[ctaken[c] + 1] IN
         SetSemaphores(Adjust(c, {level}, -1))
    /\ ctaken' = [ctaken EXCEPT ![c] = @ + 1]
    /\ cpc' = [cpc EXCEPT ![c] = IF ctaken[c] + 1 = 3 THEN "inside" ELSE "acquiring"]
    /\ UNCHANGED <<ckeys, sem_created, csem>>

\* `async with sem:` entry: asyncio.Semaphore.acquire returns once the value
\* is positive and decrements it; the caller waits while it is zero.
AcquireNext(c) ==
    /\ cpc[c] = "acquiring"
    /\ LET level == AcquireOrder(c)[ctaken[c] + 1] IN
         /\ SemValue(c, level) > 0
         /\ SetSemaphores(Adjust(c, {level}, -1))
    /\ ctaken' = [ctaken EXCEPT ![c] = @ + 1]
    /\ cpc' = [cpc EXCEPT ![c] = IF ctaken[c] + 1 = 3 THEN "inside" ELSE "acquiring"]
    /\ UNCHANGED <<ckeys, sem_created, csem>>

\* The body of the scope ends, by return or by an exception raised inside it:
\* the three __aexit__ run (model, provider, global), none of them suspends.
Leave(c) ==
    /\ cpc[c] = "inside"
    /\ SetSemaphores(Adjust(c, Held(c), 1))
    /\ cpc' = [cpc EXCEPT ![c] = "done"]
    /\ ckeys' = [ckeys EXCEPT ![c] = NoKeys]
    /\ ctaken' = [ctaken EXCEPT ![c] = 0]
    /\ csem' = [csem EXCEPT ![c] = NoSems]
    /\ UNCHANGED sem_created

\* alternative cancellation that unwinds no scope
CancelLeaky(c) ==
    /\ cpc[c] \in {"acquiring", "inside"}
    /\ cpc' = [cpc EXCEPT ![c] = "cancelled"]
    /\ ckeys' = [ckeys EXCEPT ![c] = NoKeys]
    /\ csem' = [csem EXCEPT ![c] = NoSems]
    /\ UNCHANGED <<global_semaphore, provider_semaphores, model_semaphores, ctaken,
                   sem_created>>

\* The caller's task is cancelled: CancelledError is raised at the await the
\* caller is suspended in and unwinds the scopes entered so far, releasing
\* exactly the permits taken.  ctaken keeps the number of permits it held.
Cancel(c) ==
    /\ cpc[c] \in {"acquiring", "inside"}
    /\ SetSemaphores(Adjust(c, Held(c), 1))
    /\ cpc' = [cpc EXCEPT ![c] = "cancelled"]
    /\ ckeys' = [ckeys EXCEPT ![c] = NoKeys]
    /\ csem' = [csem EXCEPT ![c] = NoSems]
    /\ UNCHANGED <<ctaken, sem_created>>

\* get_stats(): limit and availability at every level
get_stats ==
    [global    |-> [limit |-> GlobalLimit, available |-> global_semaphore],
     providers |-> [k \in DOMAIN provider_semaphores |->
                      [limit |-> ProviderLimit, available |-> provider_semaphores[k]]],
     models    |-> [k \in DOMAIN model_semaphores |->
                      [limit |-> ModelLimit, available |-> model_semaphores[k]]]]

(***************************************************************************)
(* Monitoring configuration and scheduler: MonitoringConfig rows,          *)
(* configure_scheduler, start_scheduler, GET and PATCH /monitoring/config  *)
(***************************************************************************)
MONITORING_JOB_ID == "uptime_monitoring"

\* VALID_PROMPT_PACK_IDS
ValidPromptPackIds ==
    {"code_generation", "reasoning", "health_check", "shakespeare",
     "synthetic_short", "synthetic_medium", "synthetic_long"}

\* the row get_or_create_default_config creates (last_run_at 0: NULL)
DefaultConfig ==
    [interval_minutes |-> DefaultInterval, prompt_pack |-> "health_check",
     enabled |-> TRUE, last_run_at |-> 0]

\* concurrent GET / PATCH requests
ConfigRequests == {"q1", "q2"}

\* MonitoringConfigUpdate bodies; `fields` are the attributes that are not None
NoUpdate ==
    [fields |-> {}, interval_minutes |-> 0, prompt_pack |-> "", enabled |-> FALSE]

Updates ==
    { [fields |-> {"interval_minutes"}, interval_minutes |-> 5,
       prompt_pack |-> "", enabled |-> FALSE],
      [fields |-> {"enabled"}, interval_minutes |-> 0,
       prompt_pack |-> "", enabled |-> FALSE],
      [fields |-> {"interval_minutes", "enabled"}, interval_minutes |-> DefaultInterval,
       prompt_pack |-> "", enabled |-> TRUE],
      [fields |-> {"interval_minutes"}, interval_minutes |-> 0,
       prompt_pack |-> "", enabled |-> FALSE],
      [fields |-> {"interval_minutes", "prompt_pack"}, interval_minutes |-> 5,
       prompt_pack |-> "no_such_pack", enabled |-> FALSE] }

NoConfigure == [called |-> FALSE, interval_minutes |-> 0, enabled |-> FALSE]

InitMonitoring ==
    /\ jobs = << >>
    /\ scheduler_running = FALSE
    /\ last_configure = NoConfigure
    /\ rpc = [r \in ConfigRequests |-> "idle"]
    /\ rkind = [r \in ConfigRequests |-> "GET"]
    /\ rupdate = [r \in ConfigRequests |-> NoUpdate]
    /\ rrow = [r \in ConfigRequests |-> 0]
    /\ rloaded = [r \in ConfigRequests |-> DefaultConfig]

\* alternative configure that adds the job without looking for an existing
\* one and leaves the table alone when monitoring is disabled
ConfigureSchedulerAddOnly(interval_minutes, enabled) ==
    /\ jobs' = IF enabled
               THEN Append(jobs, [id |-> MONITORING_JOB_ID, minutes |-> interval_minutes])
               ELSE jobs
    /\ last_configure' = [called |-> TRUE, interval_minutes |-> interval_minutes,
                          enabled |-> enabled]

\* configure_scheduler: get_job / remove_job of the monitoring job, then, if
\* enabled, add_job with an IntervalTrigger (replace_existing=True).  It has
\* no await that suspends: one step.
ConfigureScheduler(interval_minutes, enabled) ==
    /\ jobs' = LET kept == SelectSeq(jobs, LAMBDA j : j.id # MONITORING_JOB_ID) IN
               IF enabled
               THEN Append(kept, [id |-> MONITORING_JOB_ID, minutes |-> interval_minutes])
               ELSE kept
    /\ last_configure' = [called |-> TRUE, interval_minutes |-> interval_minutes,
                          enabled |-> enabled]

\* `select(MonitoringConfig).limit(1)`: no row (0) or one of the rows; without
\* ORDER BY the store may return any of them
SelectConfig(rows) == IF rows = << >> THEN {0} ELSE 1..Len(rows)

\* start_scheduler at process startup (lifespan), before any request is
\* served: _get_monitoring_config reads the row or falls back to (True, 15)
\* without creating one, configure_scheduler, scheduler.start()
StartScheduler ==
    /\ ~scheduler_running
    /\ \E i \in SelectConfig(config_rows) :
          IF i = 0
          THEN ConfigureScheduler(DefaultInterval, TRUE)
          ELSE ConfigureScheduler(config_rows[i].interval_minutes, config_rows[i].enabled)
    /\ scheduler_running' = TRUE
    /\ UNCHANGED <<requestVars, alertVars>>

Finished(r) == rpc[r] \in {"idle", "done", "failed"}

\* the request is answered (done: 200, failed: 400) and its session closed
Finish(r, outcome) ==
    /\ rpc' = [rpc EXCEPT ![r] = outcome]
    /\ rkind' = [rkind EXCEPT ![r] = "GET"]
    /\ rupdate' = [rupdate EXCEPT ![r] = NoUpdate]
    /\ rrow' = [rrow EXCEPT ![r] = 0]
    /\ rloaded' = [rloaded EXCEPT ![r] = DefaultConfig]

\* stop_scheduler at process shutdown, with no request and no tick under way:
\* the in-memory job table goes with the process
StopScheduler ==
    /\ scheduler_running
    /\ \A r \in ConfigRequests : Finished(r)
    /\ \A t \in Ticks : tpc[t] \in {"idle", "done", "logged"}
    /\ scheduler_running' = FALSE
    /\ jobs' = << >>
    /\ last_configure' = NoConfigure
    /\ UNCHANGED <<requestVars, alertVars>>

\* get_or_create_default_config up to its select, in GET /monitoring/config
\* and PATCH /monitoring/config: with a row the GET returns it
RequestSelect(r, kind, update) ==
    /\ scheduler_running
    /\ Finished(r)
    /\ kind = "GET" => update = NoUpdate
    /\ kind = "PATCH" => update \in Updates
    /\ \E i \in SelectConfig(config_rows) :
          IF i # 0 /\ kind = "GET"
          THEN Finish(r, "done")
          ELSE /\ rkind' = [rkind EXCEPT ![r] = kind]
               /\ rupdate' = [rupdate EXCEPT ![r] = update]
               /\ rrow' = [rrow EXCEPT ![r] = i]
               /\ rloaded' = [rloaded EXCEPT ![r] =
                                 IF i = 0 THEN DefaultConfig ELSE config_rows[i]]
               /\ rpc' = [rpc EXCEPT ![r] = IF i = 0 THEN "creating" ELSE "loaded"]
    /\ UNCHANGED <<config_rows, alerts, uptime_checks, clock, tickVars, schedulerVars>>

\* the select found no row: db.add of the default config, commit, refresh
RequestCreate(r) ==
    /\ rpc[r] = "creating"
    /\ config_rows' = Append(config_rows, DefaultConfig)
    /\ IF rkind[r] = "GET"
       THEN Finish(r, "done")
       ELSE /\ rrow' = [rrow EXCEPT ![r] = Len(config_rows) + 1]
            /\ rloaded' = [rloaded EXCEPT ![r] = DefaultConfig]
            /\ rpc' = [rpc EXCEPT ![r] = "loaded"]
            /\ UNCHANGED <<rkind, rupdate>>
    /\ UNCHANGED <<alerts, uptime_checks, clock, tickVars, schedulerVars>>

\* the checks of update_monitoring_config that answer 400
Rejected(update) ==
    \/ "interval_minutes" \in update.fields /\ update.interval_minutes < 1
    \/ "prompt_pack" \in update.fields /\ update.prompt_pack \notin ValidPromptPackIds

\* The row after the UPDATE of the PATCH's commit: the unit of work writes the
\* attributes whose assigned value differs from the value the session loaded
Written(row, loaded, update) ==
    [interval_minutes |->
        IF "interval_minutes" \in update.fields
           /\ update.interval_minutes # loaded.interval_minutes
        THEN update.interval_minutes ELSE row.interval_minutes,
     prompt_pack |->
        IF "prompt_pack" \in update.fields /\ update.prompt_pack # loaded.prompt_pack
        THEN update.prompt_pack ELSE row.prompt_pack,
     enabled |->
        IF "enabled" \in update.fields /\ update.enabled # loaded.enabled
        THEN update.enabled ELSE row.enabled,
     last_run_at |-> row.last_run_at]

\* update_monitoring_config after get_or_create_default_config: validation
\* (400 and rollback), the assignments and `await db.commit()`
PatchCommit(r) ==
    /\ rpc[r] = "loaded"
    /\ IF Rejected(rupdate[r])
       THEN /\ Finish(r, "failed")
            /\ UNCHANGED config_rows
       ELSE /\ rpc' = [rpc EXCEPT ![r] = "committed"]
            /\ config_rows' = [config_rows EXCEPT ![rrow[r]] =
                                  Written(@, rloaded[r], rupdate[r])]
            /\ UNCHANGED <<rkind, rupdate, rrow, rloaded>>
    /\ UNCHANGED <<alerts, uptime_checks, clock, tickVars, schedulerVars>>

\* the store executes the SELECT of `await db.refresh(config)`
PatchRefresh(r) ==
    /\ rpc[r] = "committed"
    /\ rloaded' = [rloaded EXCEPT ![r] = config_rows[rrow[r]]]
    /\ rpc' = [rpc EXCEPT ![r] = "refreshed"]
    /\ UNCHANGED <<rkind, rupdate, rrow, alertVars, schedulerVars>>

\* the handler resumes with the refreshed attributes and calls
\* configure_scheduler(config.interval_minutes, config.enabled)
PatchConfigure(r) ==
    /\ rpc[r] = "refreshed"
    /\ ConfigureScheduler(rloaded[r].interval_minutes, rloaded[r].enabled)
    /\ Finish(r, "done")
    /\ UNCHANGED <<scheduler_running, alertVars>>

(***************************************************************************)
(* Alert pipeline: store, monitoring tick, evaluate_alerts, acknowledge    *)
(***************************************************************************)
NoModel == "null"

\* Model rows
Models ==
    << [id |-> "m1", enabled_for_monitoring |-> TRUE],
       [id |-> "m2", enabled_for_monitoring |-> TRUE],
       [id |-> "m3", enabled_for_monitoring |-> FALSE] >>

\* `select(Model).where(Model.enabled_for_monitoring == True)`: the ids of the
\* monitored models, in the order the tick's query returns them
MonitoredModels ==
    LET monitored == SelectSeq(Models, LAMBDA m : m.enabled_for_monitoring) IN
    [i \in 1..Len(monitored) |-> monitored[i].id]

\* Model.model_id of each row, as a sequence of characters
ModelIdOf(m) ==
    CASE m = "m1" -> <<"g", "p", "t">>
      [] m = "m2" -> <<"G", "P", "T", "4">>

\* AlertRule rows, in the order the rule query returns them
AlertRules ==
    << [id |-> "r1", rule_type |-> "any_model_down", enabled |-> TRUE,
        target_model_id |-> NoModel, target_model_name |-> << >>],
       [id |-> "r2", rule_type |-> "specific_model_down", enabled |-> TRUE,
        target_model_id |-> "m1", target_model_name |-> << >>],
       [id |-> "r3", rule_type |-> "model_unavailable_everywhere", enabled |-> TRUE,
        target_model_id |-> NoModel, target_model_name |-> <<"g", "p", "t">>],
       [id |-> "r4", rule_type |-> "performance_degradation", enabled |-> TRUE,
        target_model_id |-> NoModel, target_model_name |-> << >>],
       [id |-> "r5", rule_type |-> "any_model_down", enabled |-> FALSE,
        target_model_id |-> NoModel, target_model_name |-> << >>] >>

InitAlerts ==
    /\ alerts = << >>
    /\ uptime_checks = << >>
    /\ clock = 0
    /\ config_rows = << >>
    /\ tpc = [t \in Ticks |-> "idle"]
    /\ tbatch = [t \in Ticks |-> << >>]
    /\ tidx = [t \in Ticks |-> 0]
    /\ tseen = [t \in Ticks |-> FALSE]
    /\ tnew = [t \in Ticks |-> << >>]
    /\ tcfg = [t \in Ticks |-> 0]
    /\ ttrigger = [t \in Ticks |-> "-"]
    /\ tfault = [t \in Ticks |-> "-"]

RECURSIVE Flatten(_)
Flatten(ss) == IF ss = << >> THEN << >> ELSE Head(ss) \o Flatten(Tail(ss))

Lower(ch) ==
    CASE ch = "G" -> "g" [] ch = "P" -> "p" [] ch = "T" -> "t" [] OTHER -> ch

\* SQL LIKE on case-folded text: "%" in the pattern stands for any run of
\* characters, "_" for any one character, every other character for itself
RECURSIVE LikeMatch(_, _)
LikeMatch(text, pattern) ==
    IF pattern = << >> THEN text = << >>
    ELSE IF Head(pattern) = "%"
         THEN IF LikeMatch(text, Tail(pattern)) THEN TRUE
              ELSE text # << >> /\ LikeMatch(Tail(text), pattern)
    ELSE IF text = << >> THEN FALSE
    ELSE IF Head(pattern) = "_" \/ Lower(Head(text)) = Lower(Head(pattern))
         THEN LikeMatch(Tail(text), Tail(pattern))
    ELSE FALSE

\* Model.model_id.ilike(f"%{name}%"): the name is pasted into the pattern as
\* it is, so its own "%" and "_" act as wildcards
ILike(model_id, name) == LikeMatch(model_id, <<"%">> \o name \o <<"%">>)

\* alternative query that takes any Alert of the pair, acknowledged or not, as
\* an open incident
HasAnyIncident(store, rule_id, model_id) ==
    \E i \in 1..Len(store) :
        /\ store[i].rule_id = rule_id
        /\ store[i].model_id = model_id

\* _has_active_incident: an unacknowledged Alert of the rule exists in the
\* store for the model (model_id IS NULL for cross-model rules)
HasActiveIncident(store, rule_id, model_id) ==
    \E i \in 1..Len(store) :
        /\ store[i].rule_id = rule_id
        /\ store[i].acknowledged = FALSE
        /\ store[i].model_id = model_id

\* _evaluate_any_model_down: the down checks, in batch order
AnyModelDownCandidates(rule, checks) ==
    LET down == SelectSeq(checks, LAMBDA c : c.status = "down") IN
    [i \in 1..Len(down) |-> [rule_id |-> rule.id, model_id |-> down[i].model_id]]

\* _evaluate_specific_model_down: the first check of the target model, if down
SpecificModelDownCandidates(rule, checks) ==
    LET target == SelectSeq(checks, LAMBDA c : c.model_id = rule.target_model_id) IN
    IF rule.target_model_id = NoModel \/ target = << >> THEN << >>
    ELSE IF target[1].status # "down" THEN << >>
    ELSE << [rule_id |-> rule.id, model_id |-> target[1].model_id] >>

\* _evaluate_model_unavailable_everywhere: every check of a model whose
\* model_id matches the target name is down, and there is such a check
UnavailableEverywhereCandidates(rule, checks) ==
    LET matching == {MonitoredModels[i] : i \in
                        {k \in 1..Len(MonitoredModels) :
                            ILike(ModelIdOf(MonitoredModels[k]), rule.target_model_name)}}
        relevant == SelectSeq(checks, LAMBDA c : c.model_id \in matching)
    IN  IF rule.target_model_name = << >> \/ matching = {} \/ relevant = << >> THEN << >>
        ELSE IF \E i \in 1..Len(relevant) : relevant[i].status # "down" THEN << >>
        ELSE << [rule_id |-> rule.id, model_id |-> NoModel] >>

\* _evaluate_rule: dispatch on the rule kind; other kinds are skipped
RuleCandidates(rule, checks) ==
    CASE rule.rule_type = "any_model_down" -> AnyModelDownCandidates(rule, checks)
      [] rule.rule_type = "specific_model_down" -> SpecificModelDownCandidates(rule, checks)
      [] rule.rule_type = "model_unavailable_everywhere" ->
             UnavailableEverywhereCandidates(rule, checks)
      [] OTHER -> << >>

\* evaluate_alerts: the (rule, model) pairs for which the evaluation calls
\* _has_active_incident, in call order: the enabled rules in order, each with
\* the checks that match it
Plan(checks) ==
    LET enabled == SelectSeq(AlertRules, LAMBDA r : r.enabled) IN
    Flatten([i \in 1..Len(enabled) |-> RuleCandidates(enabled[i], checks)])

\* alternative commit that also acknowledges the open alerts of the models
\* the batch reports up
CommitAlertsAutoAck(store, new, checks, now) ==
    [i \in 1..Len(store) |->
        IF \E k \in 1..Len(checks) :
              checks[k].model_id = store[i].model_id /\ checks[k].status = "up"
        THEN [store[i] EXCEPT !.acknowledged = TRUE]
        ELSE store[i]]
    \o [i \in 1..Len(new) |->
        [rule_id |-> new[i].rule_id, model_id |-> new[i].model_id,
         acknowledged |-> FALSE, created_at |-> now, updates |-> 0]]

\* The Alert table after the tick's commit: the session's new Alerts are
\* inserted unacknowledged; no existing row is touched (check_recoveries is a
\* placeholder and the tick does not call it).
CommitAlerts(store, new, checks, now) ==
    store \o [i \in 1..Len(new) |->
        [rule_id |-> new[i].rule_id, model_id |-> new[i].model_id,
         acknowledged |-> FALSE, created_at |-> now, updates |-> 0]]

\* alternative commit that persists the checks and the alerts and leaves
\* last_run_at for a later write
TickCommitWithoutLastRun(t, cfg, rows, checks, new) ==
    /\ alerts' = CommitAlerts(alerts, new, checks, clock + 1)
    /\ uptime_checks' = uptime_checks \o
         [i \in 1..Len(checks) |->
            [model_id |-> checks[i].model_id, status |-> checks[i].status,
             created_at |-> clock + 1]]
    /\ config_rows' = rows
    /\ clock' = clock + 1
    /\ tpc' = [tpc EXCEPT ![t] = "done"]
    /\ tbatch' = [tbatch EXCEPT ![t] = << >>]
    /\ tidx' = [tidx EXCEPT ![t] = 0]
    /\ tseen' = [tseen EXCEPT ![t] = FALSE]
    /\ tnew' = [tnew EXCEPT ![t] = << >>]
    /\ tcfg' = [tcfg EXCEPT ![t] = cfg]
    /\ UNCHANGED tfault

\* `await db.commit()` of the tick, which holds row cfg of the config table
\* rows: the UptimeChecks, the new Alerts and last_run_at of the session
\* become visible together, and the session ends.
TickCommit(t, cfg, rows, checks, new) ==
    /\ alerts' = CommitAlerts(alerts, new, checks, clock + 1)
    /\ uptime_checks' = uptime_checks \o
         [i \in 1..Len(checks) |->
            [model_id |-> checks[i].model_id, status |-> checks[i].status,
             created_at |-> clock + 1]]
    /\ config_rows' = [rows EXCEPT ![cfg].last_run_at = clock + 1]
    /\ clock' = clock + 1
    /\ tpc' = [tpc EXCEPT ![t] = "done"]
    /\ tbatch' = [tbatch EXCEPT ![t] = << >>]
    /\ tidx' = [tidx EXCEPT ![t] = 0]
    /\ tseen' = [tseen EXCEPT ![t] = FALSE]
    /\ tnew' = [tnew EXCEPT ![t] = << >>]
    /\ tcfg' = [tcfg EXCEPT ![t] = cfg]
    /\ UNCHANGED tfault

\* alternative handler that lets the exception leave the job body
TickFailPropagating(t, stage, cfg, rows) ==
    /\ tpc' = [tpc EXCEPT ![t] = "raised"]
    /\ tfault' = [tfault EXCEPT ![t] = stage]
    /\ tbatch' = [tbatch EXCEPT ![t] = << >>]
    /\ tidx' = [tidx EXCEPT ![t] = 0]
    /\ tseen' = [tseen EXCEPT ![t] = FALSE]
    /\ tnew' = [tnew EXCEPT ![t] = << >>]
    /\ tcfg' = [tcfg EXCEPT ![t] = cfg]
    /\ config_rows' = rows
    /\ UNCHANGED <<alerts, uptime_checks, clock>>

\* `except Exception as e: logging.error(...)` of run_uptime_checks_task: an
\* exception of any stage inside the try ends the tick; the session is closed
\* without commit, so nothing it added is stored.  rows is the config table
\* as the tick leaves it (a default row it created stays committed).
TickFail(t, stage, cfg, rows) ==
    /\ tpc' = [tpc EXCEPT ![t] = "logged"]
    /\ tfault' = [tfault EXCEPT ![t] = stage]
    /\ tbatch' = [tbatch EXCEPT ![t] = << >>]
    /\ tidx' = [tidx EXCEPT ![t] = 0]
    /\ tseen' = [tseen EXCEPT ![t] = FALSE]
    /\ tnew' = [tnew EXCEPT ![t] = << >>]
    /\ tcfg' = [tcfg EXCEPT ![t] = cfg]
    /\ config_rows' = rows
    /\ UNCHANGED <<alerts, uptime_checks, clock>>

\* The tick from its config row to the first open-incident query: the
\* monitored models are loaded, each is probed in turn (check_uptime gives up
\* or down; an exception of check_uptime, fault "check", ends the tick),
\* evaluate_alerts loads the rules and issues its first query.  With nothing
\* to query the tick sets last_run_at and commits at once.
TickProbe(t, cfg, rows, statuses, fault) ==
    LET checks == [i \in 1..Len(MonitoredModels) |->
                     [model_id |-> MonitoredModels[i], status |-> statuses[i]]]
        plan == Plan(checks)
    IN  IF fault \in {"models", "check", "evaluate"}
        THEN TickFail(t, fault, cfg, rows)
        ELSE IF plan = << >>
        THEN IF fault = "commit"
             THEN TickFail(t, fault, cfg, rows)
             ELSE TickCommit(t, cfg, rows, checks, << >>)
        ELSE /\ tpc' = [tpc EXCEPT ![t] = "evaluating"]
             /\ tbatch' = [tbatch EXCEPT ![t] = checks]
             /\ tidx' = [tidx EXCEPT ![t] = 1]
             /\ tseen' = [tseen EXCEPT ![t] =
                    HasActiveIncident(alerts, plan[1].rule_id, plan[1].model_id)]
             /\ tcfg' = [tcfg EXCEPT ![t] = cfg]
             /\ config_rows' = rows
             /\ UNCHANGED <<alerts, uptime_checks, clock, tnew, tfault>>

\* the stages of a tick that can raise
Faults == {"config", "models", "check", "evaluate", "commit"}

\* run_uptime_checks_task, started by the scheduler's job (_run_monitoring_job,
\* which needs the job installed and the scheduler running) or by POST
\* /monitoring/run: a session is opened and get_or_create_default_config
\* issues its select.  With a row the tick goes on to the probing.  Ticks are
\* numbered in start order.
TickStart(t, trigger, statuses, fault) ==
    /\ tpc[t] = "idle"
    /\ IF t = 1 THEN TRUE ELSE tpc[t - 1] # "idle"
    /\ trigger \in {"scheduled", "manual"}
    /\ trigger = "scheduled" => (scheduler_running /\ jobs # << >>)
    /\ ttrigger' = [ttrigger EXCEPT ![t] = trigger]
    /\ IF fault = "config"
       THEN TickFail(t, fault, 0, config_rows)
       ELSE \E i \in SelectConfig(config_rows) :
               IF i = 0
               THEN /\ tpc' = [tpc EXCEPT ![t] = "creating"]
                    /\ UNCHANGED <<alerts, uptime_checks, clock, config_rows, tbatch,
                                   tidx, tseen, tnew, tcfg, tfault>>
               ELSE TickProbe(t, i, config_rows, statuses, fault)

\* the tick's select found no MonitoringConfig: the default row is added and
\* committed, and the tick goes on to the probing
TickCreateConfig(t, statuses, fault) ==
    /\ tpc[t] = "creating"
    /\ UNCHANGED ttrigger
    /\ IF fault = "config"
       THEN TickFail(t, fault, 0, config_rows)
       ELSE TickProbe(t, Len(config_rows) + 1, Append(config_rows, DefaultConfig),
                      statuses, fault)

\* The tick resumes with the result of its open-incident query: without an
\* open incident it creates the Alert (db.add; autoflush is off, so the row
\* reaches the store only at commit); then it issues the next query, or, after
\* the last one, sets last_run_at and commits.
TickEvaluate(t, fault) ==
    /\ tpc[t] = "evaluating"
    /\ UNCHANGED ttrigger
    /\ LET plan == Plan(tbatch[t])
           new == IF tseen[t] THEN tnew[t] ELSE Append(tnew[t], plan[tidx[t]])
       IN  IF fault = "evaluate"
           THEN TickFail(t, fault, tcfg[t], config_rows)
           ELSE IF tidx[t] < Len(plan)
           THEN /\ tnew' = [tnew EXCEPT ![t] = new]
                /\ tidx' = [tidx EXCEPT ![t] = @ + 1]
                /\ tseen' = [tseen EXCEPT ![t] =
                       HasActiveIncident(alerts, plan[tidx[t] + 1].rule_id,
                                         plan[tidx[t] + 1].model_id)]
                /\ UNCHANGED <<alerts, uptime_checks, clock, config_rows, tpc, tbatch,
                               tcfg, tfault>>
           ELSE IF fault = "commit"
           THEN TickFail(t, fault, tcfg[t], config_rows)
           ELSE TickCommit(t, tcfg[t], config_rows, tbatch[t], new)

\* alternative acknowledge that writes the row whatever its flag was
AcknowledgeAlertAlwaysWritten(i) ==
    /\ i \in 1..Len(alerts)
    /\ alerts' = [alerts EXCEPT ![i].acknowledged = TRUE, ![i].updates = @ + 1]
    /\ UNCHANGED <<uptime_checks, clock, config_rows, tickVars>>

\* PATCH /alerts/{id}/acknowledge on an existing alert (a request on its own:
\* select, flush, refresh and the commit of the session dependency).  The
\* flush emits an UPDATE only when the flag changes, and every UPDATE stamps
\* updated_at (onupdate=func.now()): the row keeps the number of UPDATEs it
\* received.  Setting the flag of an acknowledged Alert again is no net
\* change and writes nothing.
AcknowledgeAlert(i) ==
    /\ i \in 1..Len(alerts)
    /\ alerts' = IF alerts[i].acknowledged
                 THEN alerts
                 ELSE [alerts EXCEPT ![i].acknowledged = TRUE, ![i].updates = @ + 1]
    /\ UNCHANGED <<uptime_checks, clock, config_rows, tickVars>>

Statuses == [1..Len(MonitoredModels) -> {"up", "down"}]

\* manual runs of the job body without faults, and the operator.  No tick
\* starts while another is creating the default config (the races of that
\* creation are those of SpecJob and SpecMonitoring).
NextAlerts ==
    /\ \/ \E t \in Ticks : \E statuses \in Statuses :
              /\ \A u \in Ticks : tpc[u] # "creating"
              /\ TickStart(t, "manual", statuses, "-")
       \/ \E t \in Ticks : \E statuses \in Statuses : TickCreateConfig(t, statuses, "-")
       \/ \E t \in Ticks : TickEvaluate(t, "-")
       \/ \E i \in 1..Len(alerts) : AcknowledgeAlert(i)
    /\ UNCHANGED otherThanAlerts

\* the control plane: process start and stop, and the config requests
NextMonitoring ==
    /\ \/ StartScheduler
       \/ StopScheduler
       \/ \E r \in ConfigRequests : RequestSelect(r, "GET", NoUpdate)
       \/ \E r \in ConfigRequests : \E update \in Updates : RequestSelect(r, "PATCH", update)
       \/ \E r \in ConfigRequests : RequestCreate(r)
       \/ \E r \in ConfigRequests : PatchCommit(r)
       \/ \E r \in ConfigRequests : PatchRefresh(r)
       \/ \E r \in ConfigRequests : PatchConfigure(r)
    /\ UNCHANGED otherThanMonitoring

\* probe outcomes of the ticks of the job
JobStatuses == {<<"up", "up">>, <<"up", "down">>}

\* the monitoring job: process start and stop, and ticks of either trigger
\* with an exception at any stage
NextJob ==
    /\ \/ StartScheduler
       \/ StopScheduler
       \/ \E t \in Ticks : \E trigger \in {"scheduled", "manual"} :
              \E statuses \in JobStatuses : \E fault \in Faults \cup {"-"} :
                  /\ TickStart(t, trigger, statuses, fault)
                  /\ UNCHANGED monitoringVars
       \/ \E t \in Ticks : \E statuses \in JobStatuses : \E fault \in Faults \cup {"-"} :
              /\ TickCreateConfig(t, statuses, fault)
              /\ UNCHANGED monitoringVars
       \/ \E t \in Ticks : \E fault \in {"-", "evaluate", "commit"} :
              /\ TickEvaluate(t, fault)
              /\ UNCHANGED monitoringVars
    /\ UNCHANGED otherThanMonitoring

(***************************************************************************)
(* Benchmark run: create_benchmark, _run_benchmark_task, run_benchmark     *)
(***************************************************************************)
\* ids of the rows of the Model table, in the order a query returns them
ModelTable == <<"m1", "m2">>

\* ids a request may name: the existing ones and one that does not exist
RequestIds == {"m1", "m2", "mx"}

NoConfig == [models |-> << >>, num_runs |-> 0]

InitBenchmark ==
    /\ run_status = "none"
    /\ run_completed_at = FALSE
    /\ run_model_ids = << >>
    /\ store_results = << >>
    /\ bpc = "none"
    /\ config = NoConfig
    /\ session = "active"
    /\ pending_status = "-"
    /\ session_results = << >>
    /\ results = << >>
    /\ saved = 0
    /\ storage_error = "-"
    /\ connected = FALSE
    /\ benchmark_progress = FALSE
    /\ emitted = << >>
    /\ response = "-"

\* select(Model).where(Model.id.in_(model_ids)): the matching rows, each once
SelectModels(model_ids) ==
    SelectSeq(ModelTable, LAMBDA m : \E i \in 1..Len(model_ids) : model_ids[i] = m)

\* POST /benchmarks: a request naming a missing id, or an id twice, gets 400;
\* otherwise the run is committed as pending and the background task queued.
CreateBenchmark(model_ids, num_runs) ==
    /\ run_status = "none"
    /\ LET models == SelectModels(model_ids) IN
       IF Len(models) # Len(model_ids)
       THEN /\ response' = "400"
            /\ UNCHANGED <<run_status, run_model_ids, bpc, config>>
       ELSE /\ response' = "202"
            /\ run_status' = "pending"
            /\ run_model_ids' = model_ids
            /\ config' = [models |-> models, num_runs |-> num_runs]
            /\ bpc' = "select_run"
    /\ UNCHANGED <<run_completed_at, store_results, session, pending_status,
                   session_results, results, saved, storage_error, connected,
                   benchmark_progress, emitted>>

\* WebSocket /benchmarks/{run_id}/stream: the connection is registered
StreamConnect ==
    /\ run_status # "none"
    /\ ~connected
    /\ connected' = TRUE
    /\ UNCHANGED <<run_status, run_completed_at, run_model_ids, store_results, bpc,
                   config, session, pending_status, session_results, results,
                   saved, storage_error, benchmark_progress, emitted, response>>

\* the client disconnects: the handler's finally unregisters the connection
StreamDisconnect ==
    /\ connected
    /\ connected' = FALSE
    /\ UNCHANGED <<run_status, run_completed_at, run_model_ids, store_results, bpc,
                   config, session, pending_status, session_results, results,
                   saved, storage_error, benchmark_progress, emitted, response>>

\* _broadcast_to_run: the message goes to every registered connection; a
\* connection whose send raises is unregistered and the exception swallowed.
Broadcast(type, send_ok) ==
    /\ emitted' = Append(emitted, type)
    /\ connected' = (connected /\ send_ok)

\* the sends the broadcast can see: with no connection there is nothing to fail
SendOutcomes == IF connected THEN BOOLEAN ELSE {TRUE}

\* the handler is entered: the first persistence failure is remembered, the
\* recovery select is issued
EnterHandler(op, broken) ==
    /\ bpc' = "recover_select"
    /\ session' = IF broken THEN "inactive" ELSE session
    /\ storage_error' = IF storage_error = "-" THEN op ELSE storage_error

\* a successful `await db.commit()`: the assigned status (with completed_at for
\* a terminal one) and the added results reach the store in one transaction
Commit ==
    /\ run_status' = IF pending_status = "-" THEN run_status ELSE pending_status
    /\ run_completed_at' = (run_completed_at \/ pending_status \in {"completed", "failed"})
    /\ store_results' = store_results \o session_results
    /\ session_results' = << >>
    /\ pending_status' = "-"

\* a session whose flush or connection failed refuses further statements
\* until it is rolled back; the task never rolls back
SessionUsable == session = "active"

\* alternative start of the task that never assigns status running
SelectRunUnmarked(ok, broken) ==
    /\ bpc = "select_run"
    /\ IF ok
       THEN /\ ~broken
            /\ bpc' = IF run_status = "none" THEN "done" ELSE "commit_running"
            /\ UNCHANGED <<session, storage_error>>
       ELSE EnterHandler("select_run", broken)
    /\ UNCHANGED <<run_status, run_completed_at, run_model_ids, store_results,
                   config, session_results, results, saved, connected,
                   benchmark_progress, emitted, response, pending_status>>

\* line 77, `await db.execute(select(BenchmarkRun)...)`: with the row found
\* the task assigns status running and commits; without it the task returns.
\* A failed statement enters the handler; the failure may have invalidated the
\* session's connection.
SelectRun(ok, broken) ==
    /\ bpc = "select_run"
    /\ IF ok
       THEN /\ ~broken
            /\ IF run_status = "none"
               THEN /\ bpc' = "done"
                    /\ UNCHANGED pending_status
               ELSE /\ bpc' = "commit_running"
                    /\ pending_status' = "running"
            /\ UNCHANGED <<session, storage_error>>
       ELSE /\ EnterHandler("select_run", broken)
            /\ UNCHANGED pending_status
    /\ UNCHANGED <<run_status, run_completed_at, run_model_ids, store_results,
                   config, session_results, results, saved, connected,
                   benchmark_progress, emitted, response>>

\* line 83, `await db.commit()` of status running, then the progress broadcast
CommitRunning(ok) ==
    /\ bpc = "commit_running"
    /\ IF ok
       THEN /\ Commit
            /\ bpc' = "broadcast_progress"
            /\ UNCHANGED <<session, storage_error>>
       ELSE /\ EnterHandler("commit_running", TRUE)
            /\ UNCHANGED <<run_status, run_completed_at, store_results,
                           session_results, pending_status>>
    /\ UNCHANGED <<run_model_ids, config, results, saved, connected,
                   benchmark_progress, emitted, response>>

\* line 84, the progress broadcast returns; the progress entry is created and
\* run_benchmark is awaited
BroadcastProgress(send_ok) ==
    /\ bpc = "broadcast_progress"
    /\ Broadcast("progress", send_ok)
    /\ benchmark_progress' = TRUE
    /\ bpc' = "run_benchmark"
    /\ UNCHANGED <<run_status, run_completed_at, run_model_ids, store_results,
                   config, session, pending_status, session_results, results,
                   saved, storage_error, response>>

\* run_benchmark, task planning: for every model, warmup_runs warmup tasks
\* followed by num_runs measured ones
Tasks(cfg) ==
    Flatten([i \in 1..Len(cfg.models) |->
                [k \in 1..(WarmupRuns + cfg.num_runs) |->
                    [model_id |-> cfg.models[i], is_warmup |-> (k - 1) < WarmupRuns]]])

\* alternative aggregation that keeps the warmup results
AggregateKeepWarmups(raw) == raw

\* run_benchmark, aggregation: warmup results are dropped, the others kept in
\* planning order (an exception of a task has become an error result)
Aggregate(raw) == SelectSeq(raw, LAMBDA r : ~r.is_warmup)

\* orders in which the concurrent tasks of a run may finish: the planning
\* order, its reverse, and the first task last
CompletionOrders(n) ==
    { [k \in 1..n |-> k], [k \in 1..n |-> n + 1 - k], [k \in 1..n |-> (k % n) + 1] }

\* alternative collection that takes the results as the tasks finish
GatherAsCompleted(completions) == completions

\* line 163, asyncio.gather(*tasks, return_exceptions=True): the result list
\* holds at position j the result of the j-th awaitable, whenever it finished
Gather(completions) ==
    [j \in 1..Len(completions) |->
        completions[CHOOSE k \in 1..Len(completions) : completions[k].task = j]]

\* line 91, `await run_benchmark(config)` returns: every task has produced a
\* result or an error, in some order; the save loop adds the first result to
\* the session and broadcasts it.  run_benchmark raises when the provider
\* account of a model cannot be read (create_benchmark selects the models
\* without it).
RunBenchmark(errs, order, raises) ==
    /\ bpc = "run_benchmark"
    /\ IF raises
       THEN /\ EnterHandler("-", FALSE)
            /\ UNCHANGED <<results, saved, session_results, pending_status>>
       ELSE LET tasks == Tasks(config)
                completions == [k \in 1..Len(tasks) |->
                                  [task |-> order[k],
                                   finished |-> k,
                                   model_id |-> tasks[order[k]].model_id,
                                   is_warmup |-> tasks[order[k]].is_warmup,
                                   error |-> errs[order[k]]]]
                raw == Gather(completions)
                aggregated == Aggregate(raw)
            IN  /\ results' = aggregated
                /\ IF aggregated = << >>
                   THEN /\ bpc' = "commit_completed"
                        /\ pending_status' = "completed"
                        /\ UNCHANGED <<saved, session_results>>
                   ELSE /\ bpc' = "broadcast_result"
                        /\ saved' = 1
                        /\ session_results' = Append(session_results, aggregated[1])
                        /\ UNCHANGED pending_status
                /\ UNCHANGED <<session, storage_error>>
    /\ UNCHANGED <<run_status, run_completed_at, run_model_ids, store_results,
                   config, connected, benchmark_progress, emitted, response>>

\* alternative save loop that writes each result through to the store
BroadcastResultFlushed(send_ok) ==
    /\ bpc = "broadcast_result"
    /\ Broadcast("result", send_ok)
    /\ IF saved < Len(results)
       THEN /\ saved' = saved + 1
            /\ store_results' = Append(store_results, results[saved + 1])
            /\ UNCHANGED <<bpc, pending_status>>
       ELSE /\ bpc' = "commit_completed"
            /\ pending_status' = "completed"
            /\ UNCHANGED <<saved, store_results>>
    /\ UNCHANGED <<run_status, run_completed_at, run_model_ids, session_results,
                   config, session, results, storage_error, benchmark_progress,
                   response>>

\* lines 94-119, the broadcast of a result returns: the loop adds the next
\* result to the session (db.add; nothing is flushed) and broadcasts it, or,
\* after the last one, assigns status completed and commits
BroadcastResult(send_ok) ==
    /\ bpc = "broadcast_result"
    /\ Broadcast("result", send_ok)
    /\ IF saved < Len(results)
       THEN /\ saved' = saved + 1
            /\ session_results' = Append(session_results, results[saved + 1])
            /\ UNCHANGED <<bpc, pending_status>>
       ELSE /\ bpc' = "commit_completed"
            /\ pending_status' = "completed"
            /\ UNCHANGED <<saved, session_results>>
    /\ UNCHANGED <<run_status, run_completed_at, run_model_ids, store_results,
                   config, session, results, storage_error, benchmark_progress,
                   response>>

\* alternative in which the results and the status are committed only after
\* the complete message has gone out
CommitCompletedDeferred(ok) ==
    /\ bpc = "commit_completed"
    /\ bpc' = "broadcast_complete"
    /\ UNCHANGED <<run_status, run_completed_at, run_model_ids, store_results,
                   config, session, pending_status, session_results, results,
                   saved, storage_error, connected, benchmark_progress, emitted,
                   response>>

\* line 124, `await db.commit()` of the results and status completed
CommitCompleted(ok) ==
    /\ bpc = "commit_completed"
    /\ IF ok
       THEN /\ Commit
            /\ bpc' = "broadcast_complete"
            /\ UNCHANGED <<session, storage_error>>
       ELSE /\ EnterHandler("commit_completed", TRUE)
            /\ UNCHANGED <<run_status, run_completed_at, store_results,
                           session_results, pending_status>>
    /\ UNCHANGED <<run_model_ids, config, results, saved, connected,
                   benchmark_progress, emitted, response>>

\* line 127, the completion broadcast returns; finally drops the progress entry
BroadcastComplete(send_ok) ==
    /\ bpc = "broadcast_complete"
    /\ Broadcast("complete", send_ok)
    /\ benchmark_progress' = FALSE
    /\ bpc' = "done"
    /\ UNCHANGED <<run_status, run_completed_at, run_model_ids, store_results,
                   config, session, pending_status, session_results, results,
                   saved, storage_error, response>>

\* line 132, the handler's select: with a usable session and a reachable
\* store the run is found, status failed and completed_at are assigned and the
\* commit is awaited; any exception is swallowed and the error is broadcast
RecoverSelect(ok) ==
    /\ bpc = "recover_select"
    /\ IF SessionUsable /\ ok /\ run_status # "none"
       THEN /\ pending_status' = "failed"
            /\ bpc' = "recover_commit"
            /\ UNCHANGED storage_error
       ELSE /\ bpc' = "broadcast_error"
            /\ storage_error' = IF storage_error = "-" THEN "recover_select"
                                ELSE storage_error
            /\ UNCHANGED pending_status
    /\ UNCHANGED <<run_status, run_completed_at, run_model_ids, store_results,
                   config, session, session_results, results, saved, connected,
                   benchmark_progress, emitted, response>>

\* line 137, the handler's commit; a failure is swallowed
RecoverCommit(ok) ==
    /\ bpc = "recover_commit"
    /\ bpc' = "broadcast_error"
    /\ IF ok
       THEN /\ Commit
            /\ UNCHANGED <<session, storage_error>>
       ELSE /\ session' = "inactive"
            /\ storage_error' = IF storage_error = "-" THEN "recover_commit"
                                ELSE storage_error
            /\ UNCHANGED <<run_status, run_completed_at, store_results,
                           session_results, pending_status>>
    /\ UNCHANGED <<run_model_ids, config, results, saved, connected,
                   benchmark_progress, emitted, response>>

\* line 142, the error broadcast returns; finally drops the progress entry
BroadcastError(send_ok) ==
    /\ bpc = "broadcast_error"
    /\ Broadcast("error", send_ok)
    /\ benchmark_progress' = FALSE
    /\ bpc' = "done"
    /\ UNCHANGED <<run_status, run_completed_at, run_model_ids, store_results,
                   config, session, pending_status, session_results, results,
                   saved, storage_error, response>>

\* the awaits of the task; a broadcast suspends only while a connection is
\* registered
Suspended ==
    \/ bpc \in {"select_run", "commit_running", "run_benchmark", "commit_completed",
                "recover_select", "recover_commit"}
    \/ /\ bpc \in {"broadcast_progress", "broadcast_result", "broadcast_complete",
                   "broadcast_error"}
       /\ connected

\* The owning task is cancelled: asyncio.CancelledError is raised at the await
\* the task is suspended in.  It is a BaseException, so `except Exception`
\* (line 129) does not catch it: only finally runs and the session is closed,
\* which discards what it holds.
CancelTask ==
    /\ Suspended
    /\ bpc' = "cancelled"
    /\ benchmark_progress' = FALSE
    /\ session_results' = << >>
    /\ pending_status' = "-"
    /\ UNCHANGED <<run_status, run_completed_at, run_model_ids, store_results,
                   config, session, results, saved, storage_error, connected,
                   emitted, response>>

\* what the requests of the model ask for
Requests == UNION {[1..n -> RequestIds] : n \in 1..Len(ModelTable)}

NextBenchmark ==
    /\ \/ \E model_ids \in Requests : \E num_runs \in 1..MaxNumRuns :
              CreateBenchmark(model_ids, num_runs)
       \/ StreamConnect
       \/ StreamDisconnect
       \/ \E ok \in BOOLEAN : \E broken \in BOOLEAN : SelectRun(ok, broken)
       \/ \E ok \in BOOLEAN : CommitRunning(ok)
       \/ \E send_ok \in SendOutcomes : BroadcastProgress(send_ok)
       \/ \E errs \in [1..Len(Tasks(config)) -> BOOLEAN] :
          \E order \in CompletionOrders(Len(Tasks(config))) : \E raises \in BOOLEAN :
              RunBenchmark(errs, order, raises)
       \/ \E send_ok \in SendOutcomes : BroadcastResult(send_ok)
       \/ \E ok \in BOOLEAN : CommitCompleted(ok)
       \/ \E send_ok \in SendOutcomes : BroadcastComplete(send_ok)
       \/ \E ok \in BOOLEAN : RecoverSelect(ok)
       \/ \E ok \in BOOLEAN : RecoverCommit(ok)
       \/ \E send_ok \in SendOutcomes : BroadcastError(send_ok)
       \/ CancelTask
    /\ UNCHANGED otherThanBenchmark

(***************************************************************************)
(* Provider invoker: LiteLLMClient retry loop, check_uptime                *)
(***************************************************************************)
NoError == [kind |-> "-", attempt |-> 0]
NoCheck == [status |-> "-", error |-> NoError, latency_ms |-> FALSE, ttft_ms |-> FALSE]

\* what one provider call can end in: success, or one of the litellm exceptions
\* the loop names, or any other exception
CallOutcomes ==
    {"ok", "AuthenticationError", "BadRequestError", "RateLimitError", "Timeout",
     "ServiceUnavailableError", "APIError", "Exception"}

InitInvoker ==
    /\ ipc = "idle"
    /\ imode = "-"
    /\ max_retries = 0
    /\ attempt = 0
    /\ retry_delay = 0
    /\ retry_config = [retry_delay |-> 0, retry_multiplier |-> 0]
    /\ last_exception = NoError
    /\ history = << >>
    /\ sleeps = << >>
    /\ yielded = 0
    /\ attempt_yielded = 0
    /\ ttft_attempt = 0
    /\ raised = NoError
    /\ uptime_check = NoCheck

\* alternative handler list without the clause for authentication failures
NotRetriedBadRequestOnly(kind) == kind = "BadRequestError"

\* `except AuthenticationError` / `except BadRequestError`: re-raised at once
NotRetried(kind) == kind \in {"AuthenticationError", "BadRequestError"}

\* `except (RateLimitError, Timeout, ServiceUnavailableError, APIError)`
Retried(kind) ==
    kind \in {"RateLimitError", "Timeout", "ServiceUnavailableError", "APIError"}

\* LiteLLMClient(default_retry_delay=..., default_retry_multiplier=...): the
\* client as the application constructs it, and one with other settings
\* (delays in seconds)
Clients ==
    {[default_retry_delay |-> DefaultRetryDelay,
      default_retry_multiplier |-> DefaultRetryMultiplier],
     [default_retry_delay |-> 3, default_retry_multiplier |-> 3]}

\* complete(max_retries=...) / complete_stream(max_retries=...) of a client:
\* `max_retries or self.default_max_retries`, the backoff settings of the
\* client; the retry loop is entered and the first provider call awaited
Invoke(mode, arg_max_retries, client) ==
    /\ ipc = "idle"
    /\ mode \in {"complete", "complete_stream"}
    /\ imode' = mode
    /\ max_retries' = IF arg_max_retries = 0 THEN DefaultMaxRetries ELSE arg_max_retries
    /\ retry_config' = [retry_delay |-> client.default_retry_delay,
                        retry_multiplier |-> client.default_retry_multiplier]
    /\ retry_delay' = client.default_retry_delay
    /\ ipc' = "calling"
    /\ UNCHANGED <<attempt, last_exception, history, sleeps, yielded,
                   attempt_yielded, ttft_attempt, raised, uptime_check>>

\* check_uptime up to its first await: the credentials of the provider account
\* are read before the try block, so a failure there leaves check_uptime as an
\* exception; the model name is built inside it, so a failure there gives a
\* down check; otherwise complete_stream is entered with the client's defaults
CheckUptime(credentials_ok, name_ok) ==
    /\ ipc = "idle"
    /\ imode' = "check_uptime"
    /\ IF ~credentials_ok
       THEN /\ ipc' = "raised"
            /\ raised' = [kind |-> "credentials", attempt |-> 0]
            /\ UNCHANGED <<max_retries, retry_delay, retry_config, uptime_check>>
       ELSE IF ~name_ok
       THEN /\ ipc' = "returned"
            /\ uptime_check' = [status |-> "down",
                                error |-> [kind |-> "model_name", attempt |-> 0],
                                latency_ms |-> FALSE, ttft_ms |-> FALSE]
            /\ UNCHANGED <<max_retries, retry_delay, retry_config, raised>>
       ELSE /\ ipc' = "calling"
            /\ max_retries' = DefaultMaxRetries
            /\ retry_config' = [retry_delay |-> DefaultRetryDelay,
                                retry_multiplier |-> DefaultRetryMultiplier]
            /\ retry_delay' = DefaultRetryDelay
            /\ UNCHANGED <<raised, uptime_check>>
    /\ UNCHANGED <<attempt, last_exception, history, sleeps, yielded,
                   attempt_yielded, ttft_attempt>>

\* the invocation ends normally: complete returns the response, the stream is
\* exhausted; check_uptime finalizes the metrics and returns an up check
Return ==
    /\ ipc' = "returned"
    /\ uptime_check' = IF imode = "check_uptime"
                       THEN [status |-> "up", error |-> NoError,
                             latency_ms |-> TRUE, ttft_ms |-> TRUE]
                       ELSE uptime_check
    /\ UNCHANGED raised

\* an exception leaves the retry loop: complete and complete_stream surface it,
\* check_uptime catches it and returns a down check carrying its text
Raise(e) ==
    IF imode = "check_uptime"
    THEN /\ ipc' = "returned"
         /\ uptime_check' = [status |-> "down", error |-> e,
                             latency_ms |-> FALSE, ttft_ms |-> FALSE]
         /\ UNCHANGED raised
    ELSE /\ ipc' = "raised"
         /\ raised' = e
         /\ UNCHANGED uptime_check

\* the consumer's measurement (MetricsCollector.record_token in check_uptime,
\* first_content_received in benchmark_single_model) lives outside the retry
\* loop: TTFT is set by the first chunk that reaches it and stays
FirstToken(set_by, chunks, call) ==
    IF set_by = 0 /\ chunks > 0 THEN call ELSE set_by

\* `await acompletion(...)` (and, when streaming, the iteration over the
\* response) ends: with success the invocation returns; an authentication or
\* bad-request error is re-raised; a transient error is remembered and, unless
\* this was the last attempt, the backoff sleep is awaited, otherwise the loop
\* ends and the remembered error is raised; any other exception is wrapped in
\* a RuntimeError.  A stream hands its chunks to the consumer as they arrive.
ProviderCall(outcome, chunks) ==
    /\ ipc = "calling"
    /\ imode = "complete" => chunks = 0
    /\ LET e == [kind |-> outcome, attempt |-> attempt + 1] IN
       /\ history' = Append(history, e)
       /\ yielded' = yielded + chunks
       /\ attempt_yielded' = chunks
       /\ ttft_attempt' = FirstToken(ttft_attempt, chunks, attempt + 1)
       /\ IF outcome = "ok"
          THEN /\ Return
               /\ UNCHANGED last_exception
          ELSE IF NotRetried(outcome)
          THEN /\ Raise(e)
               /\ UNCHANGED last_exception
          ELSE IF Retried(outcome)
          THEN /\ last_exception' = e
               /\ IF attempt < max_retries - 1
                  THEN /\ ipc' = "sleeping"
                       /\ UNCHANGED <<raised, uptime_check>>
                  ELSE Raise(e)
          ELSE /\ Raise([kind |-> "RuntimeError", attempt |-> attempt + 1])
               /\ UNCHANGED last_exception
    /\ UNCHANGED <<imode, max_retries, attempt, retry_delay, retry_config, sleeps>>

\* alternative backoff that grows by addition
NextDelayAdded(delay, multiplier) == delay + multiplier

\* `retry_delay *= config.retry_multiplier`
NextDelay(delay, multiplier) == delay * multiplier

\* alternative backoff that does not move on to the next attempt
SleepSameAttempt ==
    /\ ipc = "sleeping"
    /\ sleeps' = Append(sleeps, retry_delay)
    /\ retry_delay' = NextDelay(retry_delay, retry_config.retry_multiplier)
    /\ ipc' = "calling"
    /\ UNCHANGED <<imode, max_retries, attempt, retry_config, last_exception, history,
                   yielded, attempt_yielded, ttft_attempt, raised, uptime_check>>

\* `await asyncio.sleep(retry_delay)` returns: the delay is multiplied and the
\* loop goes to its next attempt
Sleep ==
    /\ ipc = "sleeping"
    /\ sleeps' = Append(sleeps, retry_delay)
    /\ retry_delay' = NextDelay(retry_delay, retry_config.retry_multiplier)
    /\ attempt' = attempt + 1
    /\ ipc' = "calling"
    /\ UNCHANGED <<imode, max_retries, retry_config, last_exception, history, yielded,
                   attempt_yielded, ttft_attempt, raised, uptime_check>>

NextInvoker ==
    /\ \/ \E mode \in {"complete", "complete_stream"} :
          \E arg_max_retries \in 0..MaxRetries : \E client \in Clients :
              Invoke(mode, arg_max_retries, client)
       \/ \E credentials_ok \in BOOLEAN : \E name_ok \in BOOLEAN :
              CheckUptime(credentials_ok, name_ok)
       \/ \E outcome \in CallOutcomes : \E chunks \in 0..MaxChunks :
              ProviderCall(outcome, chunks)
       \/ Sleep
    /\ UNCHANGED otherThanInvoker

(***************************************************************************)
(* Live progress bus of one run: _broadcast_to_run, the stream_benchmark    *)
(* handler and the stream_benchmark generator of the client                 *)
(***************************************************************************)
Subscribers == 1..NumSubscribers

\* the handler's own progress snapshot (lines 530-539), which is not published
Snapshot == 0

NoSocket == 0

\* attempts of a socket that was not registered when the publish began
NotAddressed == -1

TerminalTypes == {"complete", "error"}

InitBus ==
    /\ key_present = FALSE
    /\ active_connections = << >>
    /\ sstate = [s \in Subscribers |-> "new"]
    /\ received = [s \in Subscribers |-> << >>]
    /\ published = << >>
    /\ ppc = "idle"
    /\ bidx = 0
    /\ bcur = NoSocket
    /\ detached = FALSE
    /\ disconnected = << >>
    /\ attempts = [s \in Subscribers |-> NotAddressed]

\* list.remove(ws) on a list that holds every socket at most once
Remove(connections, ws) == SelectSeq(connections, LAMBDA x : x # ws)

Contains(connections, ws) == \E i \in 1..Len(connections) : connections[i] = ws

\* the terminal message of the run has been published
TerminalPublished ==
    published # << >> /\ published[Len(published)] \in TerminalTypes

\* _benchmark_progress holds the run: from the end of the progress broadcast
\* (line 88) to the finally of the task (line 146), after its last broadcast
HasProgress ==
    /\ published # << >>
    /\ published[1] = "progress"
    /\ Len(published) = 1 => ppc = "idle"
    /\ ~(TerminalPublished /\ ppc = "idle")

\* what _run_benchmark_task publishes next: progress or, when its first
\* statements fail, the error message; then results; then one terminal message
NextTypes ==
    IF published = << >> THEN {"progress", "error"}
    ELSE IF TerminalPublished THEN {}
    ELSE IF Len(published) < MaxMessages - 1 THEN {"result", "complete", "error"}
    ELSE TerminalTypes

\* stream_benchmark of the server, lines 521-539: the socket is accepted and
\* appended to the list of the run (created when the key is missing), and the
\* progress snapshot is sent when the run has a progress entry.  The sockets
\* are numbered in the order in which they connect.
Subscribe(s) ==
    /\ sstate[s] = "new"
    /\ \A t \in Subscribers : t < s => sstate[t] # "new"
    /\ sstate' = [sstate EXCEPT ![s] = "open"]
    /\ key_present' = TRUE
    /\ active_connections' = Append(active_connections, s)
    /\ received' = [received EXCEPT ![s] = IF HasProgress THEN <<Snapshot>> ELSE << >>]
    /\ UNCHANGED <<published, ppc, bidx, bcur, detached, disconnected, attempts>>

\* the client goes away at any time: its task is cancelled, the connection
\* breaks
ClientDisconnect(s) ==
    /\ sstate[s] = "open"
    /\ sstate' = [sstate EXCEPT ![s] = "closed"]
    /\ UNCHANGED <<key_present, active_connections, received, published, ppc, bidx,
                   bcur, detached, disconnected, attempts>>

\* alternative client that keeps reading after a terminal message
ClientKeepsReading(s) ==
    /\ sstate[s] = "open"
    /\ received[s] # << >>
    /\ received[s][Len(received[s])] # Snapshot
    /\ published[received[s][Len(received[s])]] \in TerminalTypes
    /\ UNCHANGED busVars

\* stream_benchmark of the client, lines 645-653: after it has yielded a
\* complete or error message the generator leaves its loop and `async with
\* connect(...)` closes the connection
ClientBreak(s) ==
    /\ sstate[s] = "open"
    /\ received[s] # << >>
    /\ received[s][Len(received[s])] # Snapshot
    /\ published[received[s][Len(received[s])]] \in TerminalTypes
    /\ sstate' = [sstate EXCEPT ![s] = "closed"]
    /\ UNCHANGED <<key_present, active_connections, received, published, ppc, bidx,
                   bcur, detached, disconnected, attempts>>

\* stream_benchmark of the server, lines 542-564: receive_text raises
\* WebSocketDisconnect (or the keep-alive ping cannot be sent), the loop is
\* left and finally unregisters the socket; the key of an empty list is
\* deleted, which leaves a broadcast in progress with a list of its own
Unsubscribe(s) ==
    /\ sstate[s] = "closed"
    /\ sstate' = [sstate EXCEPT ![s] = "gone"]
    /\ IF key_present
       THEN LET remaining == Remove(active_connections, s) IN
            /\ active_connections' = remaining
            /\ key_present' = (remaining # << >>)
            /\ detached' = (detached \/ (remaining = << >> /\ ppc = "sending"))
       ELSE UNCHANGED <<active_connections, key_present, detached>>
    /\ UNCHANGED <<received, published, ppc, bidx, bcur, disconnected, attempts>>

\* the list the for loop of _broadcast_to_run iterates: the list of the table,
\* seen with every change made to it during the loop, until its key is deleted
Connections(table) == IF detached THEN << >> ELSE table

\* lines 60-63: the sockets whose send raised leave the list of the table
RECURSIVE CleanUp(_, _)
CleanUp(table, failed) ==
    IF failed = << >> THEN table
    ELSE CleanUp(Remove(table, Head(failed)), Tail(failed))

\* lines 53-57, _broadcast_to_run is entered: with no socket registered it
\* returns at once, otherwise it awaits send_json on the first socket
PublishStart(type) ==
    /\ ppc = "idle"
    /\ type \in NextTypes
    /\ published' = Append(published, type)
    /\ attempts' = [s \in Subscribers |->
                        IF Contains(active_connections, s) THEN 0 ELSE NotAddressed]
    /\ disconnected' = << >>
    /\ detached' = FALSE
    /\ IF active_connections = << >>
       THEN /\ ppc' = "idle"
            /\ bidx' = 0
            /\ bcur' = NoSocket
       ELSE /\ ppc' = "sending"
            /\ bidx' = 1
            /\ bcur' = active_connections[1]
    /\ UNCHANGED <<key_present, active_connections, sstate, received>>

\* alternative send whose message overtakes the ones the client has not read
SendJsonUrgent(inbox, message) == <<message>> \o inbox

\* line 57, `await ws.send_json(message)` on an open socket: the message
\* follows the earlier ones on the connection
SendJson(inbox, message) == Append(inbox, message)

\* the outcomes of send_json: it raises on a socket whose client is gone, and
\* may raise (write error) on an open one
SendJsonOutcomes ==
    IF bcur = NoSocket THEN {}
    ELSE IF sstate[bcur] = "open" THEN BOOLEAN ELSE {FALSE}

\* lines 55-63, `await ws.send_json(message)` returns or raises: a socket
\* whose send raised is noted; the iterator of the for loop moves to the next
\* index of the list as it is now; after the loop the noted sockets are
\* removed from the table
SendReturn(ok) ==
    /\ ppc = "sending"
    /\ attempts' = [attempts EXCEPT ![bcur] = IF @ = NotAddressed THEN @ ELSE @ + 1]
    /\ received' = IF ok THEN [received EXCEPT ![bcur] = SendJson(@, Len(published))]
                   ELSE received
    /\ LET connections == Connections(active_connections)
           failed == IF ok THEN disconnected ELSE Append(disconnected, bcur)
       IN
       IF bidx < Len(connections)
       THEN /\ bcur' = connections[bidx + 1]
            /\ bidx' = bidx + 1
            /\ disconnected' = failed
            /\ UNCHANGED <<ppc, active_connections, detached>>
       ELSE /\ active_connections' = CleanUp(active_connections, failed)
            /\ disconnected' = << >>
            /\ detached' = FALSE
            /\ ppc' = "idle"
            /\ bidx' = 0
            /\ bcur' = NoSocket
    /\ UNCHANGED <<key_present, sstate, published>>

NextBus ==
    /\ \/ \E s \in Subscribers : Subscribe(s)
       \/ \E s \in Subscribers : ClientDisconnect(s)
       \/ \E s \in Subscribers : ClientBreak(s)
       \/ \E s \in Subscribers : Unsubscribe(s)
       \/ \E type \in {"progress", "result", "complete", "error"} : PublishStart(type)
       \/ \E ok \in SendJsonOutcomes : SendReturn(ok)
    /\ UNCHANGED otherThanBus

(***************************************************************************)
(* Benchmark engine: run_benchmark and its concurrent benchmark_single_model *)
(* tasks; the provider calls of check_uptime                                *)
(***************************************************************************)
\* run_benchmark calls that may overlap (two runs started by two requests)
EngineRuns == {"run1", "run2"}

\* _get_provider_key: provider_type of the account that owns the model
ProviderKeyOf(model_id) == IF model_id = "m1" THEN "openai" ELSE "anthropic"

\* the levels of `async with (global, provider, model)`, in nesting order
EngineLevels == <<"global", "provider", "model">>

NoneValue == "None"

\* str(e) of the exception raised while the credentials of the account are
\* read (line 192)
CredentialsText == "invalid credentials"

NoResult ==
    [kind |-> "none", error |-> NoneValue, ttft_ms |-> 0, tps |-> 0,
     tps_excluding_ttft |-> 0, total_latency_ms |-> 0, input_tokens |-> 0,
     output_tokens |-> 0, estimated_cost |-> NoneValue]

\* an exception that left the task and that gather delivers as its result
RaisedException(text) == [NoResult EXCEPT !.kind = "exception", !.error = text]

\* lines 223-241: the result of a stream that ended, with the time to the
\* first content, the rates and the number of chunks
Measured(chunks) ==
    [kind |-> "result", error |-> NoneValue, ttft_ms |-> IF chunks > 0 THEN 1 ELSE 0,
     tps |-> chunks, tps_excluding_ttft |-> chunks, total_latency_ms |-> 2,
     input_tokens |-> 0, output_tokens |-> chunks, estimated_cost |-> NoneValue]

\* alternative error result that keeps what was measured before the failure
ErrorResultPartial(text) ==
    [kind |-> "result", error |-> text, ttft_ms |-> 1, tps |-> 0,
     tps_excluding_ttft |-> 0, total_latency_ms |-> 2, input_tokens |-> 0,
     output_tokens |-> 1, estimated_cost |-> NoneValue]

\* _error_result (lines 76-88) and the except branch of benchmark_single_model
\* (lines 242-254): every numeric field zero, error the text of the exception
ErrorResult(text) ==
    [kind |-> "result", error |-> text, ttft_ms |-> 0, tps |-> 0,
     tps_excluding_ttft |-> 0, total_latency_ms |-> 0, input_tokens |-> 0,
     output_tokens |-> 0, estimated_cost |-> NoneValue]

InitEngine ==
    /\ epc = [r \in EngineRuns |-> "idle"]
    /\ econfig = [r \in EngineRuns |-> NoConfig]
    /\ semaphores = [r \in EngineRuns |-> [global |-> 0, provider |-> << >>, model |-> << >>]]
    /\ etasks = [r \in EngineRuns |-> << >>]
    /\ eaggregated = [r \in EngineRuns |-> << >>]
    /\ probing = FALSE

\* _init_semaphores and lines 137-146: every call builds semaphores of its
\* own, one global, one per provider key and one per model of its config
InitSemaphores(cfg) ==
    LET ids == {cfg.models[i] : i \in 1..Len(cfg.models)} IN
    [global |-> GlobalLimit,
     provider |-> [k \in {ProviderKeyOf(m) : m \in ids} |-> ProviderLimit],
     model |-> [m \in ids |-> ModelLimit]]

\* lines 130-163, run_benchmark is called: the semaphores are built, one task
\* per planned run is created and gather is awaited
EngineStart(r, models, num_runs) ==
    /\ epc[r] = "idle"
    /\ LET cfg == [models |-> models, num_runs |-> num_runs]
           planned == Tasks(cfg)
       IN  /\ econfig' = [econfig EXCEPT ![r] = cfg]
           /\ semaphores' = [semaphores EXCEPT ![r] = InitSemaphores(cfg)]
           /\ etasks' = [etasks EXCEPT ![r] =
                            [j \in 1..Len(planned) |->
                                [model_id |-> planned[j].model_id,
                                 is_warmup |-> planned[j].is_warmup,
                                 pc |-> "created", held |-> 0, failed |-> FALSE,
                                 result |-> NoResult]]]
    /\ epc' = [epc EXCEPT ![r] = "gather"]
    /\ UNCHANGED <<eaggregated, probing>>

\* _value of the semaphore of a level for a model
EngineSemValue(sems, model_id, level) ==
    CASE level = "global" -> sems.global
      [] level = "provider" -> sems.provider[ProviderKeyOf(model_id)]
      [] level = "model" -> sems.model[model_id]

\* acquire (delta -1) or release (delta 1) of the semaphore of a level
EngineAdjust(sems, model_id, level, delta) ==
    CASE level = "global" -> [sems EXCEPT !.global = @ + delta]
      [] level = "provider" ->
            [sems EXCEPT !.provider[ProviderKeyOf(model_id)] = @ + delta]
      [] level = "model" -> [sems EXCEPT !.model[model_id] = @ + delta]

\* lines 196-200, `async with (global, provider, model)`: the semaphores are
\* acquired in this order; acquiring a free semaphore does not suspend, so
\* the task goes on until it holds all three or meets one without a permit
RECURSIVE Enter(_, _, _)
Enter(sems, model_id, held) ==
    IF held = Len(EngineLevels) THEN [sems |-> sems, held |-> held]
    ELSE IF EngineSemValue(sems, model_id, EngineLevels[held + 1]) = 0
         THEN [sems |-> sems, held |-> held]
         ELSE Enter(EngineAdjust(sems, model_id, EngineLevels[held + 1], -1),
                    model_id, held + 1)

\* the task goes as far into the semaphores as it can
Advance(r, j, task) ==
    LET entered == Enter(semaphores[r], task.model_id, task.held) IN
    /\ semaphores' = [semaphores EXCEPT ![r] = entered.sems]
    /\ etasks' = [etasks EXCEPT ![r][j] =
                     [task EXCEPT !.held = entered.held,
                                  !.pc = IF entered.held = Len(EngineLevels)
                                         THEN "in_flight" ELSE "waiting"]]

\* lines 186-200, a task starts: reading the credentials of the account
\* (line 192) may raise, which ends the task with that exception; otherwise
\* the task enters the semaphores
TaskStart(r, j, credentials_ok, text) ==
    /\ epc[r] = "gather"
    /\ etasks[r][j].pc = "created"
    /\ IF credentials_ok
       THEN Advance(r, j, etasks[r][j])
       ELSE /\ etasks' = [etasks EXCEPT ![r][j] =
                             [@ EXCEPT !.pc = "done", !.failed = TRUE,
                                       !.result = RaisedException(text)]]
            /\ UNCHANGED semaphores
    /\ UNCHANGED <<epc, econfig, eaggregated, probing>>

\* a waiting task is woken after a release of the semaphore it waits for
TaskResume(r, j) ==
    /\ epc[r] = "gather"
    /\ etasks[r][j].pc = "waiting"
    /\ EngineSemValue(semaphores[r], etasks[r][j].model_id,
                      EngineLevels[etasks[r][j].held + 1]) > 0
    /\ Advance(r, j, etasks[r][j])
    /\ UNCHANGED <<epc, econfig, eaggregated, probing>>

\* the three semaphores are released on the way out of `async with`
RECURSIVE ReleaseAll(_, _, _)
ReleaseAll(sems, model_id, held) ==
    IF held = 0 THEN sems
    ELSE ReleaseAll(EngineAdjust(sems, model_id, EngineLevels[held], 1), model_id, held - 1)

\* lines 201-254, the provider call of a task ends: the stream ended and the
\* measured result is returned, or an exception was caught and the error
\* result is returned; the semaphores are released
TaskFinish(r, j, ok, chunks, text) ==
    /\ epc[r] = "gather"
    /\ etasks[r][j].pc = "in_flight"
    /\ semaphores' = [semaphores EXCEPT ![r] =
                         ReleaseAll(@, etasks[r][j].model_id, etasks[r][j].held)]
    /\ etasks' = [etasks EXCEPT ![r][j] =
                     [@ EXCEPT !.pc = "done", !.held = 0, !.failed = ~ok,
                               !.result = IF ok THEN Measured(chunks)
                                          ELSE ErrorResult(text)]]
    /\ UNCHANGED <<epc, econfig, eaggregated, probing>>

\* lines 163-174, gather returns when every task is done: warmup results are
\* skipped, an exception becomes an error result, the others are kept
EngineReturn(r) ==
    /\ epc[r] = "gather"
    /\ \A j \in 1..Len(etasks[r]) : etasks[r][j].pc = "done"
    /\ LET raw == [j \in 1..Len(etasks[r]) |->
                      [task |-> j,
                       model_id |-> etasks[r][j].model_id,
                       is_warmup |-> etasks[r][j].is_warmup,
                       result |-> IF etasks[r][j].result.kind = "exception"
                                  THEN ErrorResult(etasks[r][j].result.error)
                                  ELSE etasks[r][j].result]]
       IN  eaggregated' = [eaggregated EXCEPT ![r] = Aggregate(raw)]
    /\ epc' = [epc EXCEPT ![r] = "returned"]
    /\ UNCHANGED <<econfig, semaphores, etasks, probing>>

\* check_uptime, lines 91-100 of app/core/uptime.py: a monitoring tick calls
\* the provider through a LiteLLMClient of its own, with no semaphore (a tick
\* probing its models one after the other)
ProbeStart ==
    /\ ~probing
    /\ probing' = TRUE
    /\ UNCHANGED <<epc, econfig, semaphores, etasks, eaggregated>>

\* the provider call of check_uptime ends
ProbeEnd ==
    /\ probing
    /\ probing' = FALSE
    /\ UNCHANGED <<epc, econfig, semaphores, etasks, eaggregated>>

\* the configs the calls of the model are given, one measured run after the
\* warmup run: the first run has one model or two of different providers,
\* the run that overlaps it has one
EngineConfigs(r) ==
    IF r = "run1"
    THEN { [models |-> <<"m1">>, num_runs |-> 1],
           [models |-> <<"m1", "m2">>, num_runs |-> 1] }
    ELSE { [models |-> <<"m1">>, num_runs |-> 1] }

\* how the provider call of a task ends: the stream ends after some chunks or
\* after none, or an exception is caught
CallEndings ==
    { [ok |-> TRUE, chunks |-> 1, text |-> ""],
      [ok |-> TRUE, chunks |-> 0, text |-> ""],
      [ok |-> FALSE, chunks |-> 0, text |-> "boom"] }

NextEngine ==
    /\ \/ \E r \in EngineRuns : \E cfg \in EngineConfigs(r) :
              EngineStart(r, cfg.models, cfg.num_runs)
       \/ \E r \in EngineRuns : \E j \in 1..Len(etasks[r]) :
          \E credentials_ok \in BOOLEAN : TaskStart(r, j, credentials_ok, CredentialsText)
       \/ \E r \in EngineRuns : \E j \in 1..Len(etasks[r]) : TaskResume(r, j)
       \/ \E r \in EngineRuns : \E j \in 1..Len(etasks[r]) :
          \E e \in CallEndings : TaskFinish(r, j, e.ok, e.chunks, e.text)
       \/ \E r \in EngineRuns : EngineReturn(r)
       \/ ProbeStart
       \/ ProbeEnd
    /\ UNCHANGED otherThanEngine

(***************************************************************************)
(* Provider accounts: delete_provider and the writers of the rows it reads *)
(***************************************************************************)
\* ids the Model rows of the provider can carry
ProviderModels == {"m1", "m2"}

InitProviders ==
    /\ provider_row = FALSE
    /\ model_rows = {}
    /\ result_rows = [m \in ProviderModels |-> 0]
    /\ dpc = "idle"
    /\ dloaded = [m \in ProviderModels |-> 0]
    /\ dresponse = "-"

\* POST /providers: the row is added and committed
CreateProvider ==
    /\ ~provider_row
    /\ provider_row' = TRUE
    /\ UNCHANGED <<model_rows, result_rows, dpc, dloaded, dresponse>>

\* POST /models for the provider: the provider is looked up, the Model row is
\* added and committed
CreateModel(m) ==
    /\ provider_row
    /\ m \notin model_rows
    /\ model_rows' = model_rows \cup {m}
    /\ UNCHANGED <<provider_row, result_rows, dpc, dloaded, dresponse>>

\* the commit of a benchmark task that measured the model: one more
\* BenchmarkResult row of the model is in the store
SaveResults(m) ==
    /\ m \in model_rows
    /\ result_rows[m] < MaxResults
    /\ result_rows' = [result_rows EXCEPT ![m] = @ + 1]
    /\ UNCHANGED <<provider_row, model_rows, dpc, dloaded, dresponse>>

\* `any(len(model.benchmark_results) > 0 for model in provider.models)` on
\* the rows the session loaded
HasBenchmarkHistory(models, loaded) == \E m \in models : loaded[m] > 0

\* delete_provider up to `await db.delete(provider)`: the select with its
\* eager loads is answered; without a row the answer is 404, with benchmark
\* history among the loaded rows 409 (the session has written nothing)
DeleteSelect ==
    /\ dpc = "idle"
    /\ IF ~provider_row
       THEN /\ dresponse' = "404"
            /\ dpc' = "done"
            /\ UNCHANGED dloaded
       ELSE /\ dloaded' = [m \in ProviderModels |->
                              IF m \in model_rows THEN result_rows[m] ELSE 0]
            /\ IF HasBenchmarkHistory(model_rows, result_rows)
               THEN dresponse' = "409" /\ dpc' = "done"
               ELSE dresponse' = "-" /\ dpc' = "deleting"
    /\ UNCHANGED <<provider_row, model_rows, result_rows>>

\* `await db.delete(provider)`, `await db.commit()`: the provider row and its
\* Model rows are deleted.  The session deletes the BenchmarkResults it
\* loaded (none); rows committed since are removed by the store when it
\* enforces `ondelete="CASCADE"` and are left behind when it does not (SQLite
\* without the foreign_keys pragma).
DeleteCommit(fk_enforced) ==
    /\ dpc = "deleting"
    /\ provider_row' = FALSE
    /\ model_rows' = {}
    /\ result_rows' = IF fk_enforced THEN [m \in ProviderModels |-> 0] ELSE result_rows
    /\ dresponse' = "204"
    /\ dpc' = "done"
    /\ UNCHANGED dloaded

\* the next DELETE request for the provider id arrives
DeleteAgain ==
    /\ dpc = "done"
    /\ dpc' = "idle"
    /\ dresponse' = "-"
    /\ dloaded' = [m \in ProviderModels |-> 0]
    /\ UNCHANGED <<provider_row, model_rows, result_rows>>

NextProviders ==
    /\ \/ CreateProvider
       \/ \E m \in ProviderModels : CreateModel(m)
       \/ \E m \in ProviderModels : SaveResults(m)
       \/ DeleteSelect
       \/ \E fk_enforced \in BOOLEAN : DeleteCommit(fk_enforced)
       \/ DeleteAgain
    /\ UNCHANGED otherThanProviders

(***************************************************************************)
(* Probe loop of run_uptime_checks_task: the check_uptime calls of a run   *)
(***************************************************************************)
InitProbes ==
    /\ loop_pc = [t \in Ticks |-> "idle"]
    /\ loop_idx = [t \in Ticks |-> 0]
    /\ in_flight = [t \in Ticks |-> {}]
    /\ loop_checks = [t \in Ticks |-> << >>]

\* `uptime_check = await check_uptime(model, ...)` of the loop for the model
\* at index idx, up to its first await: the credentials are read (a failure
\* there leaves check_uptime and the run logs it), then the provider stream
\* is requested.  No semaphore and no ThrottleManager is involved.
CallCheckUptime(t, idx, checks, credentials_ok) ==
    /\ loop_checks' = [loop_checks EXCEPT ![t] = checks]
    /\ IF idx > Len(MonitoredModels)
       THEN /\ loop_pc' = [loop_pc EXCEPT ![t] = "evaluate"]
            /\ loop_idx' = [loop_idx EXCEPT ![t] = 0]
            /\ in_flight' = [in_flight EXCEPT ![t] = {}]
       ELSE IF ~credentials_ok
       THEN /\ loop_pc' = [loop_pc EXCEPT ![t] = "logged"]
            /\ loop_idx' = [loop_idx EXCEPT ![t] = idx]
            /\ in_flight' = [in_flight EXCEPT ![t] = {}]
       ELSE /\ loop_pc' = [loop_pc EXCEPT ![t] = "probing"]
            /\ loop_idx' = [loop_idx EXCEPT ![t] = idx]
            /\ in_flight' = [in_flight EXCEPT ![t] = {MonitoredModels[idx]}]

\* a run of the job body gets its config and its models from the store and
\* enters the loop: the first check_uptime call is made
LoopStart(t, credentials_ok) ==
    /\ loop_pc[t] = "idle"
    /\ CallCheckUptime(t, 1, << >>, credentials_ok)

\* the provider stream of the probe ends or fails: check_uptime returns an up
\* or a down check, the loop appends it and calls check_uptime for the next
\* model; after the last model the run goes on to evaluate_alerts
ProbeReturn(t, status, credentials_ok) ==
    /\ loop_pc[t] = "probing"
    /\ CallCheckUptime(t, loop_idx[t] + 1,
                       Append(loop_checks[t],
                              [model_id |-> MonitoredModels[loop_idx[t]],
                               status |-> status]),
                       credentials_ok)

\* evaluate_alerts and the commit of the run end
LoopCommit(t) ==
    /\ loop_pc[t] = "evaluate"
    /\ loop_pc' = [loop_pc EXCEPT ![t] = "done"]
    /\ UNCHANGED <<loop_idx, in_flight, loop_checks>>

NextProbes ==
    /\ \E t \in Ticks :
          \/ \E credentials_ok \in BOOLEAN : LoopStart(t, credentials_ok)
          \/ \E status \in {"up", "down"} : \E credentials_ok \in BOOLEAN :
                 ProbeReturn(t, status, credentials_ok)
          \/ LoopCommit(t)
    /\ UNCHANGED otherThanProbes

(***************************************************************************)
(* Process lifetime: lifespan, the scheduler job and the background tasks  *)
(***************************************************************************)
InitLifespan ==
    /\ lifespan = "down"
    /\ job_task = "none"
    /\ manual_task = "none"
    /\ bench_tasks = [r \in EngineRuns |-> "none"]
    /\ engine_disposed = FALSE

\* lifespan up to its yield: init_db, start_scheduler; requests are served
LifespanEnter ==
    /\ lifespan = "down"
    /\ lifespan' = "serving"
    /\ UNCHANGED <<job_task, manual_task, bench_tasks, engine_disposed>>

\* the interval trigger fires: the scheduler starts _run_monitoring_job (one
\* instance at a time)
JobFires ==
    /\ lifespan = "serving"
    /\ job_task \in {"none", "finished"}
    /\ job_task' = "running"
    /\ UNCHANGED <<lifespan, manual_task, bench_tasks, engine_disposed>>

\* run_uptime_checks_task of the job returns
JobEnds ==
    /\ lifespan = "serving"
    /\ job_task = "running"
    /\ job_task' = "finished"
    /\ UNCHANGED <<lifespan, manual_task, bench_tasks, engine_disposed>>

\* POST /monitoring/run: run_uptime_checks_task becomes a background task
ManualRun ==
    /\ lifespan = "serving"
    /\ manual_task \in {"none", "finished"}
    /\ manual_task' = "running"
    /\ UNCHANGED <<lifespan, job_task, bench_tasks, engine_disposed>>

ManualRunEnds ==
    /\ lifespan = "serving"
    /\ manual_task = "running"
    /\ manual_task' = "finished"
    /\ UNCHANGED <<lifespan, job_task, bench_tasks, engine_disposed>>

\* POST /benchmarks: _run_benchmark_task becomes a background task
BenchmarkTaskStarts(r) ==
    /\ lifespan = "serving"
    /\ bench_tasks[r] = "none"
    /\ bench_tasks' = [bench_tasks EXCEPT ![r] = "running"]
    /\ UNCHANGED <<lifespan, job_task, manual_task, engine_disposed>>

BenchmarkTaskEnds(r) ==
    /\ lifespan = "serving"
    /\ bench_tasks[r] = "running"
    /\ bench_tasks' = [bench_tasks EXCEPT ![r] = "finished"]
    /\ UNCHANGED <<lifespan, job_task, manual_task, engine_disposed>>

\* lifespan after its yield: `await stop_scheduler()`, which is the plain
\* call `scheduler.shutdown(wait=True)`.  The call does not suspend, so a job
\* coroutine of the same event loop cannot run, let alone finish, before it
\* returns: the scheduler either cancels it or leaves it pending.  Nothing
\* else is done: no benchmark task is cancelled and the engine is not
\* disposed.
LifespanExit(job_cancelled) ==
    /\ lifespan = "serving"
    /\ lifespan' = "exited"
    /\ job_task' = IF job_task = "running" /\ job_cancelled THEN "cancelled" ELSE job_task
    /\ UNCHANGED <<manual_task, bench_tasks, engine_disposed>>

NextLifespan ==
    /\ \/ LifespanEnter
       \/ JobFires
       \/ JobEnds
       \/ ManualRun
       \/ ManualRunEnds
       \/ \E r \in EngineRuns : BenchmarkTaskStarts(r)
       \/ \E r \in EngineRuns : BenchmarkTaskEnds(r)
       \/ \E job_cancelled \in BOOLEAN : LifespanExit(job_cancelled)
    /\ UNCHANGED otherThanLifespan


(***************************************************************************)
(* Measurement of one stream: MetricsCollector (app/core/metrics.py) as    *)
(* used by check_uptime and by a caller that records every chunk, and the  *)
(* counters of benchmark_single_model.  Times are positions in the stream: *)
(* the measurement starts at 0, chunk i arrives at i, the stream ends at   *)
(* one more than the number of chunks.                                     *)
(***************************************************************************)
\* the content of a chunk without content (role-only): Python None
NoneContent == "<None>"

\* chunk contents: missing, empty, whitespace, text
Contents == {NoneContent, "", "   ", "Hello"}

\* truth value of `content` in `if content:` / `if not content:`
Truthy(content) == content \notin {NoneContent, ""}

Consumers == {"MetricsCollector", "check_uptime", "benchmark_single_model"}

NoMetrics == [ttft_ms |-> -1, total_latency_ms |-> -1, output_tokens |-> -1]

\* MetricsCollector.start(); start_time, ttft_ms, tokens_generated and
\* first_content_received of benchmark_single_model
NewCollector == [token_count |-> 0, first_token_recorded |-> FALSE, ttft_time |-> 0]

InitMetrics ==
    /\ measuring = "-"
    /\ chunks_seen = << >>
    /\ collector = NewCollector
    /\ metrics = NoMetrics

\* MetricsCollector.record_token(content) at time now
RecordToken(c, content, now) ==
    IF ~Truthy(content) THEN c
    ELSE [token_count |-> c.token_count + 1,
          first_token_recorded |-> TRUE,
          ttft_time |-> IF c.first_token_recorded THEN c.ttft_time ELSE now]

\* the loop body of check_uptime: `if content: collector.record_token(content)`
UptimeChunk(c, content, now) ==
    IF Truthy(content) THEN RecordToken(c, content, now) ELSE c

\* the loop body of benchmark_single_model: TTFT at the first chunk with
\* content, `tokens_generated += 1` for every chunk
BenchmarkChunk(c, content, now) ==
    [token_count |-> c.token_count + 1,
     first_token_recorded |-> c.first_token_recorded \/ Truthy(content),
     ttft_time |-> IF ~c.first_token_recorded /\ Truthy(content) THEN now
                   ELSE c.ttft_time]

\* MetricsCollector.finalize(output_tokens=...) at time now (0: None, and
\* `output_tokens or self.token_count` treats an explicit 0 alike)
Finalize(c, output_tokens, now) ==
    [ttft_ms |-> IF c.ttft_time # 0 /\ c.first_token_recorded THEN c.ttft_time ELSE now,
     total_latency_ms |-> now,
     output_tokens |-> IF output_tokens # 0 THEN output_tokens ELSE c.token_count]

\* the BenchmarkResult of benchmark_single_model after the stream
BenchmarkMetrics(c, now) ==
    [ttft_ms |-> c.ttft_time, total_latency_ms |-> now,
     output_tokens |-> c.token_count]

\* a consumer starts its measurement and requests the stream
MeasureStart(consumer) ==
    /\ measuring = "-"
    /\ measuring' = consumer
    /\ collector' = NewCollector
    /\ UNCHANGED <<chunks_seen, metrics>>

\* the stream delivers a chunk and the consumer's loop body runs
ChunkArrives(content) ==
    /\ measuring # "-"
    /\ metrics = NoMetrics
    /\ Len(chunks_seen) < MaxStreamLen
    /\ chunks_seen' = Append(chunks_seen, content)
    /\ collector' =
         CASE measuring = "MetricsCollector" ->
                 RecordToken(collector, content, Len(chunks_seen) + 1)
           [] measuring = "check_uptime" ->
                 UptimeChunk(collector, content, Len(chunks_seen) + 1)
           [] measuring = "benchmark_single_model" ->
                 BenchmarkChunk(collector, content, Len(chunks_seen) + 1)
    /\ UNCHANGED <<measuring, metrics>>

\* the stream ends and the consumer computes what it reports; only a direct
\* caller of finalize passes an explicit count
StreamEnds(output_tokens) ==
    /\ measuring # "-"
    /\ metrics = NoMetrics
    /\ output_tokens # 0 => measuring = "MetricsCollector"
    /\ metrics' =
         IF measuring = "benchmark_single_model"
         THEN BenchmarkMetrics(collector, Len(chunks_seen) + 1)
         ELSE Finalize(collector, output_tokens, Len(chunks_seen) + 1)
    /\ UNCHANGED <<measuring, chunks_seen, collector>>

NextMetrics ==
    /\ \/ \E consumer \in Consumers : MeasureStart(consumer)
       \/ \E content \in Contents : ChunkArrives(content)
       \/ \E output_tokens \in {0, ExplicitCount} : StreamEnds(output_tokens)
    /\ UNCHANGED otherThanMetrics

(***************************************************************************)
(* evaluate_alerts as a function of the rule table, the Alert table and    *)
(* the batch it is called with                                             *)
(***************************************************************************)
InitEvaluator ==
    /\ ev_called = FALSE
    /\ ev_rules = << >>
    /\ ev_store = << >>
    /\ ev_checks = << >>
    /\ new_alerts = << >>

\* AlertRule.rule_type is a free string (AlertRuleCreate.rule_type: str):
\* the three evaluated kinds, the reserved kind and one that no code knows
RuleTypes ==
    {"any_model_down", "specific_model_down", "model_unavailable_everywhere",
     "performance_degradation", "latency_spike"}

\* AlertRule.target_model_name as the API stores it (Optional[str], any
\* text): absent, a plain name, a name with an underscore
TargetNames == {<< >>, <<"g", "p", "t">>, <<"p", "_", "4">>}

\* the AlertRule row with primary key id
RuleRows(id) ==
    [id : {id}, rule_type : RuleTypes, enabled : BOOLEAN,
     target_model_id : {NoModel, "m1"}, target_model_name : TargetNames]

\* the rows that follow the first one in a table of several rules
MoreRuleRows(id) ==
    [id : {id}, rule_type : RuleTypes, enabled : BOOLEAN,
     target_model_id : {"m1"}, target_model_name : {<<"g", "p", "t">>}]

\* the AlertRule tables of 1..n rows, in primary-key order
RECURSIVE RuleTables(_)
RuleTables(n) ==
    IF n = 1 THEN {<<r>> : r \in RuleRows(1)}
    ELSE RuleTables(n - 1)
         \cup {Append(t, r) : t \in {u \in RuleTables(n - 1) : Len(u) = n - 1},
                               r \in MoreRuleRows(n)}

\* the batches run_uptime_checks_task builds: at most one check per monitored
\* model, in model order
CheckBatches ==
    {Flatten([i \in 1..Len(MonitoredModels) |->
                IF st[i] = "none" THEN << >>
                ELSE << [model_id |-> MonitoredModels[i], status |-> st[i]] >>]) :
        st \in [1..Len(MonitoredModels) -> {"up", "down", "none"}]}

\* Alert tables the call can find: empty, or one Alert of the first rule
AlertStores ==
    {<< >>}
    \cup {<< [rule_id |-> 1, model_id |-> m, acknowledged |-> a] >> :
             m \in {NoModel, "m1"}, a \in BOOLEAN}

\* alternative rule query without the `enabled == True` filter
EnabledRulesAll(rules) == rules

\* `select(AlertRule).where(AlertRule.enabled == True)`
EnabledRules(rules) == SelectSeq(rules, LAMBDA r : r.enabled)

\* evaluate_alerts(db, uptime_checks) run from its first line to its return
\* with no other session committing in between: the enabled rules in query
\* order, each dispatched by _evaluate_rule; every candidate without an open
\* incident in the Alert table becomes an Alert of new_alerts (autoflush is
\* off: the Alerts the call adds are not seen by its later queries).
EvaluateAlerts(rules, store, checks) ==
    /\ ev_called' = TRUE
    /\ ev_rules' = rules
    /\ ev_store' = store
    /\ ev_checks' = checks
    /\ new_alerts' =
           SelectSeq(Flatten([i \in 1..Len(EnabledRules(rules)) |->
                                 RuleCandidates(EnabledRules(rules)[i], checks)]),
                     LAMBDA p : ~HasActiveIncident(store, p.rule_id, p.model_id))

NextEvaluator ==
    /\ ~ev_called
    /\ \E rules \in RuleTables(MaxRules) : \E store \in AlertStores :
          \E checks \in CheckBatches : EvaluateAlerts(rules, store, checks)
    /\ UNCHANGED otherThanEvaluator

(***************************************************************************)
(* Specifications                                                          *)
(***************************************************************************)
CallerProgress(c) ==
    /\ (AcquireNext(c) \/ Leave(c))
    /\ UNCHANGED otherThanThrottle

NextThrottleNoCancel ==
    /\ \E c \in Callers :
        \/ \E p \in ProviderKeys, m \in ModelKeys : Call(c, p, m)
        \/ AcquireNext(c)
        \/ Leave(c)
    /\ UNCHANGED otherThanThrottle

NextThrottle ==
    /\ \E c \in Callers :
        \/ \E p \in ProviderKeys, m \in ModelKeys : Call(c, p, m)
        \/ AcquireNext(c)
        \/ Leave(c)
        \/ Cancel(c)
    /\ UNCHANGED otherThanThrottle

Init ==
    /\ InitThrottle /\ InitAlerts /\ InitMonitoring /\ InitBenchmark /\ InitInvoker
    /\ InitBus /\ InitEngine /\ InitEvaluator /\ InitProviders
    /\ InitProbes /\ InitLifespan /\ InitMetrics

\* callers of acquire(), with cancellation
SpecThrottle == Init /\ [][NextThrottle]_vars

\* callers that are never cancelled; the event loop keeps running coroutines
\* that are ready: while some caller can take a permit or leave the scope, one
\* of them does
SpecThrottleLive ==
    /\ Init
    /\ [][NextThrottleNoCancel]_vars
    /\ WF_vars(\E c \in Callers : CallerProgress(c))

\* monitoring ticks (scheduled and manual may overlap) and acknowledgements
SpecAlerts == Init /\ [][NextAlerts]_vars

\* the monitoring control plane: scheduler and config requests
SpecMonitoring == Init /\ [][NextMonitoring]_vars

\* the monitoring job: scheduler and ticks that may fail
SpecJob == Init /\ [][NextJob]_vars

\* one benchmark run: the request, its background task, the progress stream
SpecBenchmark == Init /\ [][NextBenchmark]_vars

\* an await of the background task returns or raises: every operation the
\* task waits for terminates (the store answers or fails, every provider call
\* ends, a send to the subscriber ends)
TaskStep ==
    \/ \E ok \in BOOLEAN : \E broken \in BOOLEAN : SelectRun(ok, broken)
    \/ \E ok \in BOOLEAN : CommitRunning(ok)
    \/ \E send_ok \in SendOutcomes : BroadcastProgress(send_ok)
    \/ \E errs \in [1..Len(Tasks(config)) -> BOOLEAN] :
       \E order \in CompletionOrders(Len(Tasks(config))) : \E raises \in BOOLEAN :
           RunBenchmark(errs, order, raises)
    \/ \E send_ok \in SendOutcomes : BroadcastResult(send_ok)
    \/ \E ok \in BOOLEAN : CommitCompleted(ok)
    \/ \E send_ok \in SendOutcomes : BroadcastComplete(send_ok)
    \/ \E ok \in BOOLEAN : RecoverSelect(ok)
    \/ \E ok \in BOOLEAN : RecoverCommit(ok)
    \/ \E send_ok \in SendOutcomes : BroadcastError(send_ok)

\* the benchmark task with the event loop resuming it whenever the operation
\* it awaits has ended
SpecBenchmarkLive ==
    Init /\ [][NextBenchmark]_vars /\ WF_vars(TaskStep /\ UNCHANGED otherThanBenchmark)

\* one invocation of the provider client; the event loop keeps running it
SpecInvoker == Init /\ [][NextInvoker]_vars /\ WF_vars(NextInvoker)

SpecEngine == Init /\ [][NextEngine]_vars

\* one call of evaluate_alerts on every rule table, Alert table and batch
SpecEvaluator == Init /\ [][NextEvaluator]_vars

\* DELETE /providers/{id} requests among the requests and tasks that write
\* the rows of the provider
SpecProviders == Init /\ [][NextProviders]_vars

\* the probe loops of the runs of the monitoring job, next to the
\* ThrottleManager of the process
SpecProbes == Init /\ [][NextProbes]_vars

\* the process from startup to the end of its lifespan
SpecLifespan == Init /\ [][NextLifespan]_vars

\* one measured stream
SpecMetrics == Init /\ [][NextMetrics]_vars

\* the event loop runs what is ready: a client that has read the terminal
\* message leaves its loop, the handler of a closed socket gets its
\* WebSocketDisconnect, a broadcast that is awaiting a send is resumed
BusProgress ==
    \/ \E s \in Subscribers : ClientBreak(s)
    \/ \E s \in Subscribers : Unsubscribe(s)
    \/ \E ok \in SendJsonOutcomes : SendReturn(ok)

SpecBus ==
    /\ Init
    /\ [][NextBus]_vars
    /\ WF_vars(BusProgress /\ UNCHANGED otherThanBus)

(***************************************************************************)
(* Throttle Manager: properties                                            *)
(***************************************************************************)
Inside == {c \in Callers : cpc[c] = "inside"}

\* C3: at every moment the callers inside the acquire scope number at most
\* global_limit in total, at most provider_limit for each provider key and at
\* most model_limit for each model key.
C3_ThrottleCeiling ==
    /\ Cardinality(Inside) <= GlobalLimit
    /\ \A k \in ProviderKeys :
         Cardinality({c \in Inside : ckeys[c].provider = k}) <= ProviderLimit
    /\ \A k \in ModelKeys :
         Cardinality({c \in Inside : ckeys[c].model = k}) <= ModelLimit

\* three callers on one provider and model: one is inside at its model's
\* limit while two others wait in acquire
C3_Witness ==
    \E c \in Callers :
        /\ cpc[c] = "inside"
        /\ Cardinality({x \in Inside : ckeys[x].model = ckeys[c].model}) = ModelLimit
        /\ Cardinality({d \in Callers : /\ d # c
                                        /\ cpc[d] = "acquiring"
                                        /\ ckeys[d] = ckeys[c]}) >= 2

\* C4: with the fixed global -> provider -> model order no caller waits
\* forever: every caller that has called acquire, waiting or inside,
\* eventually has left the scope (a caller is done only by leaving the scope
\* it was inside).
C4_NoCallerWaitsForever ==
    \A c \in Callers : (cpc[c] \in {"acquiring", "inside"}) ~> (cpc[c] = "done")

\* a caller that holds the global permit waits for a permit held by a caller
\* inside the scope, while an earlier caller has already left
C4_Witness ==
    \E c, d, e \in Callers :
        /\ cpc[c] = "acquiring"
        /\ ctaken[c] \in {1, 2}
        /\ SemValue(c, AcquireOrder(c)[ctaken[c] + 1]) = 0
        /\ cpc[d] = "inside"
        /\ cpc[e] = "done"

\* the callers holding a permit of the level, of the key k at key levels
Holders(level, k) ==
    {c \in Callers :
        /\ level \in Held(c)
        /\ level = "provider" => ckeys[c].provider = k
        /\ level = "model" => ckeys[c].model = k}

NoAcquisitionOutstanding == \A c \in Callers : cpc[c] \notin {"acquiring", "inside"}

\* C5: every permit taken is released exactly once on every exit path
\* (return, exception, cancellation, also while waiting): the availability
\* get_stats reports is the limit minus the permits currently held, and it
\* equals the limit at every level and key whenever no acquisition is
\* outstanding.
C5_PermitsReleasedOnce ==
    LET stats == get_stats IN
    /\ stats.global.available = stats.global.limit - Cardinality(Holders("global", "-"))
    /\ \A k \in DOMAIN stats.providers :
         stats.providers[k].available =
             stats.providers[k].limit - Cardinality(Holders("provider", k))
    /\ \A k \in DOMAIN stats.models :
         stats.models[k].available =
             stats.models[k].limit - Cardinality(Holders("model", k))
    /\ NoAcquisitionOutstanding =>
         /\ stats.global.available = GlobalLimit
         /\ \A k \in DOMAIN stats.providers : stats.providers[k].available = ProviderLimit
         /\ \A k \in DOMAIN stats.models : stats.models[k].available = ModelLimit

\* one caller was cancelled while it waited holding permits, another left the
\* scope normally, and nothing is outstanding any more
C5_Witness ==
    /\ NoAcquisitionOutstanding
    /\ \E c, d \in Callers :
         /\ cpc[c] = "cancelled" /\ ctaken[c] \in {1, 2}
         /\ cpc[d] = "done"
    /\ DOMAIN provider_semaphores # {}
    /\ DOMAIN model_semaphores # {}

(***************************************************************************)
(* Alert pipeline: properties                                              *)
(***************************************************************************)
\* The Alerts a step adds to the session of tick t (db.add in the evaluator);
\* in the step that ends with the commit, the rows stored beyond those the
\* session held already
AddedBy(t) ==
    IF tpc[t] # "done" /\ tpc'[t] = "done"
    THEN {[rule_id |-> alerts'[i].rule_id, model_id |-> alerts'[i].model_id] :
             i \in (Len(alerts) + Len(tnew[t]) + 1)..Len(alerts')}
    ELSE IF Len(tnew'[t]) > Len(tnew[t])
    THEN {tnew'[t][i] : i \in (Len(tnew[t]) + 1)..Len(tnew'[t])}
    ELSE {}

\* C1: the evaluation never creates an Alert for a (rule_id, model_id) pair
\* while the store holds an unacknowledged Alert for that pair.  Two
\* overlapping runs of the monitoring job break it: both query before either
\* commits, and the second creates its Alert after the first has committed.
C1_NoAlertWhileOpen ==
    [][\A t \in Ticks : \A a \in AddedBy(t) :
          ~HasActiveIncident(alerts, a.rule_id, a.model_id)]_vars

\* C2: the acknowledged flag of an Alert only ever changes from false to
\* true, and only in a step of the acknowledge operation on that Alert; no
\* monitoring tick (evaluation, uptime check, recovery) changes it.
C2_AckOnlyByAcknowledge ==
    [][\A i \in 1..Len(alerts) :
          alerts'[i].acknowledged # alerts[i].acknowledged =>
              /\ alerts[i].acknowledged = FALSE
              /\ alerts'[i].acknowledged = TRUE
              /\ AcknowledgeAlert(i)]_vars

\* an open alert whose model a later committed tick reported up (recovery),
\* next to an alert the operator acknowledged
C2_Witness ==
    /\ \E i \in 1..Len(alerts) : \E k \in 1..Len(uptime_checks) :
          /\ alerts[i].acknowledged = FALSE
          /\ uptime_checks[k].model_id = alerts[i].model_id
          /\ uptime_checks[k].status = "up"
          /\ uptime_checks[k].created_at > alerts[i].created_at
    /\ \E j \in 1..Len(alerts) : alerts[j].acknowledged = TRUE

\* The store holds Alerts of the pair and all of them are acknowledged
AllAcknowledged(store, pair) ==
    /\ \E i \in 1..Len(store) :
          store[i].rule_id = pair.rule_id /\ store[i].model_id = pair.model_id
    /\ \A i \in 1..Len(store) :
          (store[i].rule_id = pair.rule_id /\ store[i].model_id = pair.model_id)
              => store[i].acknowledged

\* C19: once the Alerts of a (rule, model) pair are all acknowledged, an
\* evaluation whose batch has a down check matching the rule finds no open
\* incident for the pair, creates exactly one Alert for it, and its commit
\* stores that Alert unacknowledged and fresh next to the acknowledged one.
C19_FreshAlertAfterAcknowledge ==
    [][\A t \in Ticks :
          /\ (/\ tidx'[t] # tidx[t]
              /\ tpc'[t] = "evaluating"
              /\ AllAcknowledged(alerts, Plan(tbatch'[t])[tidx'[t]]))
                 => tseen'[t] = FALSE
          /\ (/\ tpc[t] = "evaluating"
              /\ ~tseen[t]
              /\ tpc'[t] = "evaluating"
              /\ tidx'[t] # tidx[t])
                 => LET pair == Plan(tbatch[t])[tidx[t]] IN
                    /\ Len(SelectSeq(tnew[t], LAMBDA a : a = pair)) = 0
                    /\ Len(SelectSeq(tnew'[t], LAMBDA a : a = pair)) = 1
          /\ (tpc[t] # "done" /\ tpc'[t] = "done")
                 => LET added == SubSeq(alerts', Len(alerts) + 1, Len(alerts'))
                        Stored(pair) ==
                            Len(SelectSeq(added, LAMBDA a : /\ a.rule_id = pair.rule_id
                                                            /\ a.model_id = pair.model_id))
                    IN  /\ Len(alerts') >= Len(alerts)
                        /\ \A i \in 1..Len(alerts) : alerts'[i] = alerts[i]
                        /\ \A k \in 1..Len(added) :
                              /\ added[k].acknowledged = FALSE
                              /\ added[k].created_at = clock'
                              /\ added[k].created_at > clock
                        /\ \A k \in 1..Len(tnew[t]) : Stored(tnew[t][k]) = 1
                        /\ (tpc[t] = "evaluating" /\ ~tseen[t])
                              => Stored(Plan(tbatch[t])[tidx[t]]) = 1]_vars

\* first failing evaluation, acknowledge, next failing evaluation: the pair
\* has an acknowledged Alert and a later unacknowledged one, and no other
C19_Witness ==
    \E i \in 1..Len(alerts) : \E j \in 1..Len(alerts) :
        /\ alerts[i].rule_id = alerts[j].rule_id
        /\ alerts[i].model_id = alerts[j].model_id
        /\ alerts[i].acknowledged = TRUE
        /\ alerts[j].acknowledged = FALSE
        /\ alerts[j].created_at > alerts[i].created_at
        /\ \A k \in 1..Len(alerts) :
              (alerts[k].rule_id = alerts[i].rule_id /\ alerts[k].model_id = alerts[i].model_id)
                  => k \in {i, j}

\* C20: acknowledging an acknowledged Alert leaves it acknowledged and changes
\* no field of it and no other Alert: a second acknowledge gives the state
\* the first one gave.  (The first one sets the flag and updates the row.)
C20_AcknowledgeIdempotent ==
    [][\A i \in 1..Len(alerts) :
          (tickVars' = tickVars /\ AcknowledgeAlert(i)) =>
              /\ alerts'[i].acknowledged = TRUE
              /\ \A j \in 1..Len(alerts) : j # i => alerts'[j] = alerts[j]
              /\ alerts[i].acknowledged => alerts' = alerts]_vars

\* an Alert acknowledged by one UPDATE, before the next tick committed, next
\* to an open Alert
C20_Witness ==
    /\ \E i \in 1..Len(alerts) :
          alerts[i].acknowledged /\ alerts[i].updates = 1 /\ alerts[i].created_at < clock
    /\ \E j \in 1..Len(alerts) : ~alerts[j].acknowledged

(***************************************************************************)
(* Benchmark run: properties                                               *)
(***************************************************************************)
\* C6 as stated: the status starts at pending and changes only along
\* pending -> running, running -> completed and running -> failed.  The
\* exception handler also covers the task's first select, so a store failure
\* there takes a run from pending to failed.
C6_OnlyThroughRunning ==
    [][run_status' # run_status =>
          <<run_status, run_status'>> \in
              {<<"none", "pending">>, <<"pending", "running">>,
               <<"running", "completed">>, <<"running", "failed">>}]_vars

\* C6, amended: the status starts at pending and changes only along
\* pending -> running, running -> completed, running -> failed and
\* pending -> failed; a run is never completed without having been running,
\* and completed and failed are absorbing.
C6_StatusTransitions ==
    [][run_status' # run_status =>
          <<run_status, run_status'>> \in
              {<<"none", "pending">>, <<"pending", "running">>,
               <<"running", "completed">>, <<"running", "failed">>,
               <<"pending", "failed">>}]_vars

\* a run marked failed by the handler after the task's first select failed
C6_Witness ==
    /\ run_status = "failed"
    /\ run_completed_at
    /\ storage_error = "select_run"
    /\ bpc = "done"

\* C7: a completed run has exactly |model_ids| * num_runs persisted results,
\* num_runs for every model of the run, none of them of a warmup task.
C7_CompletedRunResults ==
    run_status = "completed" =>
        /\ Len(store_results) = Len(run_model_ids) * config.num_runs
        /\ \A i \in 1..Len(store_results) : ~store_results[i].is_warmup
        /\ \A k \in 1..Len(run_model_ids) :
              Cardinality({i \in 1..Len(store_results) :
                              store_results[i].model_id = run_model_ids[k]})
                  = config.num_runs

\* a completed run of two models (requested in the other order than the store
\* returns them) and two measured runs each, with a success and an error
C7_Witness ==
    /\ run_status = "completed"
    /\ run_model_ids = <<"m2", "m1">>
    /\ config.num_runs = MaxNumRuns
    /\ \E i, j \in 1..Len(store_results) :
          store_results[i].error /\ ~store_results[j].error

\* C8: the results of a run reach the store only in the step that makes the
\* run completed; a run that is pending, running or failed has no persisted
\* results.
C8_ResultsOnlyWithCompleted ==
    /\ [](run_status # "completed" => store_results = << >>)
    /\ [][store_results' # store_results =>
             /\ store_results = << >>
             /\ run_status = "running"
             /\ run_status' = "completed"]_vars

\* the task has ended, cancelled or after a failed commit, with at least two
\* results added to its session: the run is not completed and the store holds
\* none of them
C8_Witness ==
    /\ bpc \in {"cancelled", "done"}
    /\ saved >= 2
    /\ run_status = "running"
    /\ store_results = << >>

\* C9: when the task of a running run is cancelled, the run is marked failed
\* with completed_at set and an error message is broadcast.  The handler is
\* `except Exception`, which a cancellation passes by.
C9_CancelledRunMarkedFailed ==
    [][(bpc # "cancelled" /\ bpc' = "cancelled" /\ run_status = "running") =>
          /\ run_status' = "failed"
          /\ run_completed_at'
          /\ \E i \in 1..Len(emitted') : emitted'[i] = "error"]_vars

\* C10: once the task has ended after the commit of the results failed, the
\* run is failed with completed_at set.  The handler reuses the session whose
\* commit failed, so its own select raises and the run stays running.
C10_StorageFailureMarksFailed ==
    (bpc = "done" /\ storage_error = "commit_completed") =>
        (run_status = "failed" /\ run_completed_at)

\* planning indices of the measured (non-warmup) tasks of the run, in order
MeasuredTasks ==
    SelectSeq([j \in 1..Len(Tasks(config)) |-> j],
              LAMBDA j : ~Tasks(config)[j].is_warmup)

\* the rows are those of the first measured tasks, in planning order: model
\* after model as in the config, run after run for each model
InPlanningOrder(rows) ==
    /\ Len(rows) <= Len(MeasuredTasks)
    /\ \A k \in 1..Len(rows) :
          /\ rows[k].task = MeasuredTasks[k]
          /\ rows[k].model_id = Tasks(config)[MeasuredTasks[k]].model_id

\* C25: the results run_benchmark returns, the results the save loop has
\* added to the session and the results persisted are in planning order of
\* the measured tasks, whatever the order in which the tasks finished; the
\* returned list and the persisted rows of a completed run hold all of them.
C25_ResultsInPlanningOrder ==
    /\ InPlanningOrder(results)
    /\ InPlanningOrder(session_results)
    /\ InPlanningOrder(store_results)
    /\ results # << >> => Len(results) = Len(MeasuredTasks)
    /\ run_status = "completed" => Len(store_results) = Len(MeasuredTasks)

\* a completed run of two models whose tasks finished in another order than
\* planned: a persisted row finished after the row that follows it
C25_Witness ==
    /\ run_status = "completed"
    /\ Len(config.models) = 2
    /\ \E i, j \in 1..Len(store_results) :
          /\ i < j
          /\ store_results[i].finished > store_results[j].finished
          /\ store_results[i].model_id # store_results[j].model_id

\* the message sequence of a run: progress, the result messages, one terminal
CompleteSequence(msgs) ==
    /\ Len(msgs) >= 2
    /\ msgs[1] = "progress"
    /\ msgs[Len(msgs)] \in {"complete", "error"}
    /\ \A i \in 2..(Len(msgs) - 1) : msgs[i] = "result"

\* C21: the messages of a run whose task has started are one progress
\* message, then the result messages, then exactly one terminal message
\* (complete or error) and nothing after it.  While the task runs the
\* messages are a beginning of such a sequence; once it has ended they are a
\* whole one.  A task that is cancelled publishes no terminal message, and a
\* task whose first select or commit fails publishes the error message alone.
C21_MessageSequence ==
    /\ \A i \in 1..Len(emitted) :
          /\ (i = 1) <=> (emitted[i] = "progress")
          /\ emitted[i] \in {"complete", "error"} => i = Len(emitted)
    /\ bpc \in {"done", "cancelled"} => CompleteSequence(emitted)

(***************************************************************************)
(* Provider invoker: properties                                            *)
(***************************************************************************)
\* C11: an authentication or bad-request failure of a provider call ends the
\* invocation: that call is the last one, no backoff sleep follows it (a
\* rejected first call is the only call, without any sleep), and the error
\* that leaves complete or complete_stream is that same error.
C11_AuthAndBadRequestNotRetried ==
    \A k \in 1..Len(history) :
        history[k].kind \in {"AuthenticationError", "BadRequestError"} =>
            /\ k = Len(history)
            /\ Len(sleeps) = k - 1
            /\ ipc \in {"raised", "returned"}
            /\ imode \in {"complete", "complete_stream"} =>
                   (ipc = "raised" /\ raised = history[k])

\* a streaming invocation with max_retries above one whose first call was
\* rejected for authentication
C11_Witness ==
    /\ imode = "complete_stream"
    /\ max_retries > 1
    /\ Len(history) = 1
    /\ history[1].kind = "AuthenticationError"
    /\ ipc = "raised"

\* C12: the invocation issues at most max_retries provider calls and no call
\* after a successful one; when every call failed with a transient error the
\* error raised is that of the last call; and the retry loop terminates.
C12_RetriesBoundedAndTerminate ==
    /\ [](/\ Len(history) <= max_retries
          /\ \A k \in 1..Len(history) : history[k].kind = "ok" => k = Len(history)
          /\ (/\ ipc = "raised"
              /\ history # << >>
              /\ \A k \in 1..Len(history) : Retried(history[k].kind))
                 => (Len(history) = max_retries /\ raised = history[Len(history)]))
    /\ (ipc \in {"calling", "sleeping"}) ~> (ipc \in {"returned", "raised"})

\* every one of the default three attempts failed with a transient error, a
\* different one the last time
C12_Witness ==
    /\ ipc = "raised"
    /\ max_retries = DefaultMaxRetries
    /\ Len(history) = max_retries
    /\ \A k \in 1..Len(history) : Retried(history[k].kind)
    /\ history[1].kind # history[Len(history)].kind
    /\ sleeps = <<DefaultRetryDelay, DefaultRetryDelay * DefaultRetryMultiplier>>

RECURSIVE Power(_, _)
Power(base, exponent) ==
    IF exponent = 0 THEN 1 ELSE base * Power(base, exponent - 1)

\* C30: the sleep before the k-th retry lasts delay * multiplier^(k-1), every
\* sleep is followed by a retry, and no sleep follows the final failed
\* attempt: an invocation that exhausts its n attempts has slept n - 1 times.
C30_BackoffSchedule ==
    /\ \A k \in 1..Len(sleeps) :
          sleeps[k] = retry_config.retry_delay
                         * Power(retry_config.retry_multiplier, k - 1)
    /\ ipc = "calling" => Len(sleeps) = Len(history)
    /\ (ipc \in {"sleeping", "raised", "returned"} /\ history # << >>)
          => Len(sleeps) = Len(history) - 1
    /\ (/\ ipc \in {"raised", "returned"}
        /\ history # << >>
        /\ \A k \in 1..Len(history) : Retried(history[k].kind))
          => Len(sleeps) = max_retries - 1

\* a client with delay 3 and multiplier 3 has used up its three attempts on
\* transient errors, having slept 3 and then 9 seconds
C30_Witness ==
    /\ ipc = "raised"
    /\ retry_config = [retry_delay |-> 3, retry_multiplier |-> 3]
    /\ max_retries = DefaultMaxRetries
    /\ Len(history) = max_retries
    /\ \A k \in 1..Len(history) : Retried(history[k].kind)
    /\ sleeps = <<3, 9>>

\* C13: check_uptime never raises; every failure gives a down check with the
\* error and no latency, a stream that ends normally an up check with latency
\* and TTFT, and the status is never degraded.  The credentials are read
\* before the try block: a failure there leaves check_uptime as an exception.
C13_CheckUptimeNeverRaises ==
    imode = "check_uptime" =>
        /\ ipc # "raised"
        /\ ipc = "returned" =>
              /\ uptime_check.status \in {"up", "down"}
              /\ uptime_check.status = "down" =>
                    (uptime_check.error # NoError /\ ~uptime_check.latency_ms)
              /\ uptime_check.status = "up" =>
                    (uptime_check.latency_ms /\ uptime_check.ttft_ms)

(***************************************************************************)
(* Monitoring configuration, scheduler and job: properties                 *)
(***************************************************************************)
\* the job table a configure call with these arguments is to leave
JobTable(interval_minutes, enabled) ==
    IF enabled THEN << [id |-> MONITORING_JOB_ID, minutes |-> interval_minutes] >>
    ELSE << >>

\* C14: after any sequence of start and configure calls the job table holds
\* at most one monitoring job: exactly one, with the interval of the latest
\* call, if that call had enabled = true, and none if it had enabled = false.
C14_AtMostOneJob ==
    /\ Len(jobs) <= 1
    /\ last_configure.called =>
          jobs = JobTable(last_configure.interval_minutes, last_configure.enabled)

\* the job installed at startup with 15 minutes was replaced by one of
\* 5 minutes
C14_Witness ==
    /\ scheduler_running
    /\ last_configure.called
    /\ last_configure.interval_minutes # DefaultInterval
    /\ jobs = JobTable(last_configure.interval_minutes, TRUE)

\* C15: once all PATCH requests have finished, the installed job (present or
\* absent, and its interval) agrees with the persisted MonitoringConfig.  Two
\* overlapping PATCH requests break it: the one that refreshed first
\* configures last, with the attributes it read before the other's commit.
C15_JobAgreesWithConfig ==
    (/\ scheduler_running
     /\ \A r \in ConfigRequests : Finished(r)
     /\ config_rows # << >>)
        => \E i \in 1..Len(config_rows) :
               jobs = JobTable(config_rows[i].interval_minutes, config_rows[i].enabled)

\* C17: the store holds at most one MonitoringConfig row at all times.  Two
\* concurrent first reads both find no row and both insert the default.
C17_SingleConfigRow == Len(config_rows) <= 1

\* C16: an exception at any stage of a monitoring tick is logged and never
\* leaves the job body, and it leaves the job table and the scheduler as they
\* were, so the installed job goes on firing.
C16_TickExceptionsLogged ==
    /\ [](\A t \in Ticks : tpc[t] # "raised")
    /\ [][\A t \in Ticks :
             tfault'[t] # tfault[t] =>
                 /\ tpc'[t] = "logged"
                 /\ jobs' = jobs
                 /\ scheduler_running' = scheduler_running]_vars

\* a scheduled tick whose commit failed was logged, the job is still
\* installed and another scheduled tick has committed
C16_Witness ==
    /\ scheduler_running
    /\ jobs # << >>
    /\ \E t \in Ticks : \E u \in Ticks :
          /\ tpc[t] = "logged" /\ tfault[t] = "commit" /\ ttrigger[t] = "scheduled"
          /\ u > t /\ tpc[u] = "done" /\ ttrigger[u] = "scheduled"

\* the stages of a tick that fail when the store cannot be reached
StoreFaults == {"config", "models", "evaluate", "commit"}

\* C18: every tick that ends, scheduled or manual, with the store reachable
\* has committed exactly one UptimeCheck for every monitored model, none for
\* another model, and last_run_at.  A tick in which check_uptime raises (C13)
\* ends in the exception handler with nothing written.
C18_TickWritesAllChecks ==
    [][\A t \in Ticks :
          (/\ tpc[t] \notin {"done", "logged"}
           /\ tpc'[t] \in {"done", "logged"}
           /\ tfault'[t] \notin StoreFaults) =>
              /\ tpc'[t] = "done"
              /\ Len(uptime_checks') = Len(uptime_checks) + Len(MonitoredModels)
              /\ \A k \in 1..Len(Models) :
                    Len(SelectSeq(SubSeq(uptime_checks', Len(uptime_checks) + 1,
                                         Len(uptime_checks')),
                                  LAMBDA c : c.model_id = Models[k].id
                                             /\ c.status \in {"up", "down"}))
                        = IF Models[k].enabled_for_monitoring THEN 1 ELSE 0
              /\ config_rows'[tcfg'[t]].last_run_at = clock'
              /\ clock' > clock]_vars

(***************************************************************************)
(* Live progress bus: properties                                           *)
(***************************************************************************)
\* the messages of the bus a client has read, without the handler's snapshot
Inbox(s) == SelectSeq(received[s], LAMBDA m : m # Snapshot)

\* the latest message of the bus has reached the client
Delivered(s) == Inbox(s) # << >> /\ Inbox(s)[Len(Inbox(s))] = Len(published)

\* C22: when a publish has returned, every socket that was registered when it
\* began and has not been unregistered by its own handler has had exactly one
\* delivery attempt (none has had more); a socket whose attempt failed is no
\* longer in the subscriber table, and every other one has received the
\* message.  The for loop iterates the list of the table itself: a handler
\* that unregisters its socket during a send shifts the list under the
\* iterator, and the socket that moves into the visited position is skipped.
C22_PublishReachesEverySubscriber ==
    ppc = "idle" =>
        \A s \in Subscribers :
            attempts[s] # NotAddressed =>
                /\ attempts[s] <= 1
                /\ sstate[s] # "gone" => attempts[s] = 1
                /\ attempts[s] = 1 =>
                      Delivered(s) \/ ~Contains(active_connections, s)

\* C23: every client reads the messages of the run in the order of their
\* publication: the sequence numbers in its inbox increase.
C23_FifoPerSubscriber ==
    \A s \in Subscribers :
        \A i, j \in 1..Len(Inbox(s)) : i < j => Inbox(s)[i] < Inbox(s)[j]

\* a client has read two messages of the run, the second one terminal
C23_Witness ==
    \E s \in Subscribers :
        /\ Len(Inbox(s)) >= 2
        /\ published[Inbox(s)[Len(Inbox(s))]] \in TerminalTypes

\* a terminal message has been delivered to the client
GotTerminal(s) ==
    \E i \in 1..Len(Inbox(s)) : published[Inbox(s)[i]] \in TerminalTypes

AllZero(result) ==
    /\ result.ttft_ms = 0
    /\ result.tps = 0
    /\ result.tps_excluding_ttft = 0
    /\ result.total_latency_ms = 0
    /\ result.input_tokens = 0
    /\ result.output_tokens = 0

\* number of measured (non-warmup) tasks of a call
Measurements(r) ==
    Cardinality({j \in 1..Len(etasks[r]) : ~etasks[r][j].is_warmup})

\* C26: a failed measurement does not fail the run.  A BenchmarkResult that a
\* task returned has error set exactly when the measurement failed, and then
\* all its numeric fields are zero; a call that has returned holds one result
\* for every measured task, with error set exactly for the failed ones (also
\* those whose task ended with an exception), the error being the text of the
\* exception and the numeric fields zero.
C26_TaskFailureYieldsErrorResult ==
    \A r \in EngineRuns :
        /\ \A j \in 1..Len(etasks[r]) :
              etasks[r][j].result.kind = "result" =>
                  /\ etasks[r][j].failed <=> etasks[r][j].result.error # NoneValue
                  /\ etasks[r][j].failed => AllZero(etasks[r][j].result)
        /\ epc[r] = "returned" =>
              /\ Len(eaggregated[r]) = Measurements(r)
              /\ \A k \in 1..Len(eaggregated[r]) :
                    LET row == eaggregated[r][k]
                        task == etasks[r][row.task]
                    IN  /\ row.result.kind = "result"
                        /\ task.failed <=> row.result.error # NoneValue
                        /\ task.failed =>
                              /\ AllZero(row.result)
                              /\ row.result.error = task.result.error

\* a call has returned the results of two measured tasks: one ended with an
\* exception before its try block, the other was measured
C26_Witness ==
    \E r \in EngineRuns :
        /\ epc[r] = "returned"
        /\ \E i, j \in 1..Len(eaggregated[r]) :
              /\ etasks[r][eaggregated[r][i].task].result.kind = "exception"
              /\ eaggregated[r][i].result.error = CredentialsText
              /\ eaggregated[r][j].result.error = NoneValue
              /\ eaggregated[r][j].result.output_tokens > 0

\* provider calls in flight in the whole process: the tasks of every run that
\* are inside their semaphores and the probe of the monitoring tick
InFlight ==
    Cardinality({<<r, j>> \in EngineRuns \X (1..4) :
                    j <= Len(etasks[r]) /\ etasks[r][j].pc = "in_flight"})
        + (IF probing THEN 1 ELSE 0)

\* C27: the provider calls in flight, over all benchmark runs and monitoring
\* ticks of the process, never exceed the global limit.  run_benchmark builds
\* semaphores of its own on every call and check_uptime takes none.
C27_GlobalLimitProcessWide == InFlight <= GlobalLimit


(***************************************************************************)
(* evaluate_alerts: properties                                             *)
(***************************************************************************)
\* name occurs in model_id as a substring, letter case ignored
ContainsIgnoreCase(model_id, name) ==
    \E i \in 0..(Len(model_id) - Len(name)) :
        \A j \in 1..Len(name) : Lower(model_id[i + j]) = Lower(name[j])

\* the Alerts of new_alerts that carry the rule
AlertsOf(rule) == SelectSeq(new_alerts, LAMBDA a : a.rule_id = rule.id)

\* the checks of the batch for a model whose model_id contains the target name
ChecksNaming(rule) ==
    SelectSeq(ev_checks,
              LAMBDA c : ContainsIgnoreCase(ModelIdOf(c.model_id), rule.target_model_name))

\* C28: a model_unavailable_everywhere rule creates an alert only when the
\* batch has at least one check for a model whose model_id contains
\* target_model_name (case-insensitive) and every such check is down; it then
\* creates at most one Alert, with model_id null; it creates none when any
\* such check is up or when an open alert with null model_id already exists
\* for the rule.
C28_UnavailableEverywhere ==
    ev_called =>
        \A i \in 1..Len(ev_rules) :
            ev_rules[i].rule_type = "model_unavailable_everywhere" =>
                LET rule == ev_rules[i]
                    such == ChecksNaming(rule)
                    made == AlertsOf(rule)
                IN  /\ made # << >> =>
                          /\ such # << >>
                          /\ \A k \in 1..Len(such) : such[k].status = "down"
                    /\ Len(made) <= 1
                    /\ \A k \in 1..Len(made) : made[k].model_id = NoModel
                    /\ (\E k \in 1..Len(such) : such[k].status = "up") => made = << >>
                    /\ HasActiveIncident(ev_store, rule.id, NoModel) => made = << >>

\* C29: only enabled rules of kind any_model_down, specific_model_down or
\* model_unavailable_everywhere produce alerts: every Alert a call returns
\* carries a rule that is enabled and of one of the three kinds, so a rule
\* with enabled = false, a performance_degradation rule and a rule of unknown
\* kind produce none, whatever the batch holds.
C29_OnlyEnabledKnownRulesAlert ==
    ev_called =>
        \A i \in 1..Len(ev_rules) :
            AlertsOf(ev_rules[i]) # << >> =>
                /\ ev_rules[i].enabled
                /\ ev_rules[i].rule_type \in
                       {"any_model_down", "specific_model_down",
                        "model_unavailable_everywhere"}

\* a call on a batch of down checks with a disabled any_model_down rule and an
\* enabled rule of a kind that is not evaluated returns no Alert
C29_Witness ==
    /\ ev_called
    /\ Len(ev_checks) = Len(MonitoredModels)
    /\ \A k \in 1..Len(ev_checks) : ev_checks[k].status = "down"
    /\ ev_store = << >>
    /\ \E i \in 1..Len(ev_rules) :
          ev_rules[i].rule_type = "any_model_down" /\ ~ev_rules[i].enabled
    /\ \E i \in 1..Len(ev_rules) :
          /\ ev_rules[i].rule_type \in {"performance_degradation", "latency_spike"}
          /\ ev_rules[i].enabled
    /\ new_alerts = << >>


(***************************************************************************)
(* Provider accounts: properties                                           *)
(***************************************************************************)
\* a Model row of the provider has at least one BenchmarkResult row
ChildHasResult == \E m \in model_rows : result_rows[m] > 0

\* C31: a DELETE answered while a child Model of the provider has a
\* BenchmarkResult is answered 409 and leaves the provider, its models and
\* their results as they were; the provider row is deleted only when no child
\* model has a result.  delete_provider decides on the rows it loaded before
\* `await db.delete` and `await db.commit`.
C31_DeleteRefusedWithHistory ==
    [][/\ (dresponse' \in {"204", "409"} /\ dresponse = "-" /\ dpc # "done"
           /\ ChildHasResult)
          => (dresponse' = "409"
              /\ UNCHANGED <<provider_row, model_rows, result_rows>>)
       /\ (provider_row /\ ~provider_row') => ~ChildHasResult]_vars

(***************************************************************************)
(* Alert pipeline: open incidents in the store                             *)
(***************************************************************************)
\* C32: at all times, after any sequence of monitoring ticks and
\* acknowledgements (overlapping ticks included), the store holds at most one
\* unacknowledged Alert per (rule_id, model_id) pair.
C32_AtMostOneOpenAlert ==
    \A i, j \in 1..Len(alerts) :
        (/\ alerts[i].rule_id = alerts[j].rule_id
         /\ alerts[i].model_id = alerts[j].model_id
         /\ ~alerts[i].acknowledged
         /\ ~alerts[j].acknowledged) => i = j

(***************************************************************************)
(* Benchmark background task: progress to completed                        *)
(***************************************************************************)
\* C33: a run whose background task has started ends completed, unless the
\* task is cancelled or an operation on the store fails; in particular no run
\* becomes failed without a failure of the store.  run_benchmark itself may
\* raise (the provider account of a model is read outside the tasks it
\* gathers), and that exception marks the run failed.
C33_RunEventuallyCompleted ==
    /\ [](run_status = "failed" => storage_error # "-")
    /\ (bpc = "select_run" /\ run_status = "pending")
          ~> (run_status = "completed" \/ bpc = "cancelled" \/ storage_error # "-")

(***************************************************************************)
(* Probe loop: properties                                                  *)
(***************************************************************************)
\* permits of the global semaphore of the ThrottleManager that are taken
GlobalPermitsTaken == GlobalLimit - global_semaphore

\* C34: every probe of a monitoring tick runs inside a Throttle Manager
\* acquisition, so a probe in flight has a permit of the manager taken for
\* it, and the probes a tick has in flight stay within the global limit.
\* check_uptime is called without any acquisition.
C34_ProbesInsideThrottle ==
    /\ \A t \in Ticks : Cardinality(in_flight[t]) <= GlobalLimit
    /\ Cardinality(UNION {{<<t, m>> : m \in in_flight[t]} : t \in Ticks})
          <= GlobalPermitsTaken

(***************************************************************************)
(* Provider invoker: what the consumer of a retried stream measures        *)
(***************************************************************************)
\* C35: when a stream that was retried ends, the consumer's measurement is
\* that of the final provider call alone: the chunks it counted are the
\* chunks of that call and its TTFT was set by a chunk of that call.  The
\* retry loop hands the chunks of a failing call to the consumer before the
\* failure, and the consumer's collector is never reset.
C35_MetricsOfLastAttempt ==
    (/\ ipc = "returned"
     /\ imode \in {"complete_stream", "check_uptime"}
     /\ history # << >>
     /\ history[Len(history)].kind = "ok")
        => /\ yielded = attempt_yielded
           /\ ttft_attempt \in {0, Len(history)}

(***************************************************************************)
(* Process lifetime: properties                                            *)
(***************************************************************************)
\* C36: when the shutdown of the process has run, the scheduler has waited
\* for the tick in progress (the job coroutine has finished: it is neither
\* cancelled nor still running), the benchmark tasks in flight have been
\* cancelled, and the store is closed.  The lifespan only calls
\* scheduler.shutdown.
C36_ShutdownOrder ==
    lifespan = "exited" =>
        /\ job_task \notin {"running", "cancelled"}
        /\ \A r \in EngineRuns : bench_tasks[r] # "running"
        /\ engine_disposed


(***************************************************************************)
(* Throttle Manager: creation of the per-key semaphores                    *)
(***************************************************************************)
\* callers that have obtained their semaphores and not yet left acquire()
Active == {c \in Callers : cpc[c] \in {"acquiring", "inside"}}

\* C37: whatever the interleaving of first-use acquire calls, exactly one
\* semaphore object is ever constructed for a provider key and for a model
\* key, and every caller of that key is handed that one object.
C37_OneSemaphorePerKey ==
    /\ DOMAIN sem_created.provider = DOMAIN provider_semaphores
    /\ DOMAIN sem_created.model = DOMAIN model_semaphores
    /\ \A k \in DOMAIN provider_semaphores : sem_created.provider[k] = 1
    /\ \A k \in DOMAIN model_semaphores : sem_created.model[k] = 1
    /\ \A c \in Active, e \in Active :
         /\ ckeys[c].provider = ckeys[e].provider
               => csem[c].provider = csem[e].provider
         /\ ckeys[c].model = ckeys[e].model => csem[c].model = csem[e].model

\* all the callers have called acquire() with the same new keys before any
\* of them has taken a permit
C37_Witness ==
    /\ \A c \in Callers : cpc[c] = "acquiring" /\ ctaken[c] = 0
    /\ \A c \in Callers : ckeys[c] = ckeys[1]
    /\ \A c \in Callers : csem[c] = [provider |-> 1, model |-> 1]
    /\ sem_created.provider[ckeys[1].provider] = 1

(***************************************************************************)
(* Benchmark task: what has been committed when a terminal message goes    *)
(* out                                                                     *)
(***************************************************************************)
Published(type) == \E i \in 1..Len(emitted) : emitted[i] = type

\* C38: a complete message is published only after the commit that makes the
\* run completed and persists all of its results, so the store then shows
\* status completed with the full result set; an error message is published
\* only after the handler's attempt to mark the run failed (its select and,
\* when the run was found, its commit) has been made.
C38_TerminalMessageAfterCommit ==
    /\ [](Published("complete") =>
             /\ run_status = "completed"
             /\ run_completed_at
             /\ store_results = results
             /\ session_results = << >>)
    /\ [][(~Published("error") /\ Published("error")') =>
             bpc = "broadcast_error"]_vars
    /\ [][(bpc # "broadcast_error" /\ bpc' = "broadcast_error") =>
             bpc \in {"recover_select", "recover_commit"}]_vars

\* the task has ended with the complete message delivered to a connected
\* subscriber, for a run of two models and two measured runs each
C38_Witness ==
    /\ bpc = "done"
    /\ connected
    /\ emitted[Len(emitted)] = "complete"
    /\ Len(results) = 2 * MaxNumRuns
    /\ store_results = results

(***************************************************************************)
(* Monitoring tick: atomicity of its effects                               *)
(***************************************************************************)
\* this step changes a last_run_at (a row created in the step has none)
LastRunWritten ==
    \/ \E i \in 1..Len(config_rows) :
          config_rows'[i].last_run_at # config_rows[i].last_run_at
    \/ \E i \in (Len(config_rows) + 1)..Len(config_rows') :
          config_rows'[i].last_run_at # 0

\* this step makes an UptimeCheck, an Alert or a last_run_at visible
TickEffectVisible ==
    \/ uptime_checks' # uptime_checks
    \/ Len(alerts') # Len(alerts)
    \/ LastRunWritten

\* this step is the commit of tick t: one UptimeCheck per monitored model,
\* the new Alerts and last_run_at, all with the time of the commit
TickCommitted(t) ==
    /\ tpc[t] # "done"
    /\ tpc'[t] = "done"
    /\ Len(uptime_checks') = Len(uptime_checks) + Len(MonitoredModels)
    /\ SubSeq(uptime_checks', 1, Len(uptime_checks)) = uptime_checks
    /\ \A i \in (Len(uptime_checks) + 1)..Len(uptime_checks') :
          uptime_checks'[i].created_at = clock'
    /\ SubSeq(alerts', 1, Len(alerts)) = alerts
    /\ \A i \in (Len(alerts) + 1)..Len(alerts') : alerts'[i].created_at = clock'
    /\ config_rows'[tcfg'[t]].last_run_at = clock'

\* C39: a tick persists its effects all-or-nothing.  A step that makes an
\* UptimeCheck, an Alert or a last_run_at visible is the commit of one tick
\* and makes all of them visible; a step that ends a tick is either that
\* commit or, for a tick that failed, changes none of the three.
C39_TickAllOrNothing ==
    /\ [][TickEffectVisible => \E t \in Ticks : TickCommitted(t)]_vars
    /\ [][\A t \in Ticks :
             /\ (tpc[t] # "done" /\ tpc'[t] = "done") => TickCommitted(t)
             /\ (tpc[t] # "logged" /\ tpc'[t] = "logged") => ~TickEffectVisible]_vars

\* a tick whose commit failed after it had evaluated a down check has ended
\* with nothing of it in the store, next to a tick that committed an Alert
C39_Witness ==
    \E t, u \in Ticks :
        /\ tpc[t] = "logged"
        /\ tfault[t] = "commit"
        /\ tpc[u] = "done"
        /\ Len(uptime_checks) = Len(MonitoredModels)
        /\ Len(alerts) >= 1
        /\ config_rows[tcfg[u]].last_run_at = clock

(***************************************************************************)
(* Measurement of one stream: properties                                   *)
(***************************************************************************)
\* positions of the chunks with content
NonEmpty(chunks) == {i \in 1..Len(chunks) : Truthy(chunks[i])}

\* position of the first chunk with content, 0 when there is none
FirstNonEmpty(chunks) ==
    IF NonEmpty(chunks) = {} THEN 0
    ELSE CHOOSE i \in NonEmpty(chunks) : \A j \in NonEmpty(chunks) : i <= j

\* C40: chunks with empty or missing content are ignored by the measurement,
\* for uptime checks and benchmark measurements alike: the observed token
\* count is the number of non-empty chunks, TTFT is fixed once, by the first
\* non-empty chunk, and without an explicit count output_tokens is the number
\* of non-empty chunks.  benchmark_single_model counts every chunk.
C40_EmptyChunksIgnored ==
    /\ collector.token_count = Cardinality(NonEmpty(chunks_seen))
    /\ collector.first_token_recorded <=> (NonEmpty(chunks_seen) # {})
    /\ collector.ttft_time = FirstNonEmpty(chunks_seen)
    /\ metrics # NoMetrics =>
          \/ metrics.output_tokens = Cardinality(NonEmpty(chunks_seen))
          \/ measuring = "MetricsCollector" /\ metrics.output_tokens = ExplicitCount
=============================================================================
